---------------------------- MODULE Spec2Model ----------------------------
(***************************************************************************)
(* A model of the schema-driven tool compiler and request dispatcher of    *)
(* argo-workflows-mcp.                                                     *)
(*                                                                         *)
(* The repository holds two revisions of OpenAPISchemaParser:              *)
(*   "guarded"  : resolveSchema keeps a visited set (cycle guard), and     *)
(*                resolveRef falls back to {type: object};                 *)
(*   "adapting" : detects the version once, rebases references on the      *)
(*                definitions / components store, synthesizes operation    *)
(*                identifiers, and resolveRef throws on an absent target.  *)
(* The variable parserKind says which revision the server was built with.  *)
(*                                                                         *)
(* Strings the code takes apart (path templates, tool names, argument      *)
(* keys and values) are sequences of one-character strings.  JSON objects  *)
(* are functions from keys to values; an absent key is a key outside the   *)
(* DOMAIN.  A value of undefined stored under a key is modelled as the key *)
(* being absent (JSON serialisation drops it).                             *)
(***************************************************************************)
EXTENDS Integers, Sequences, FiniteSets, TLC

VARIABLES
    parserKind,   \* which revision of OpenAPISchemaParser the server holds
    entry,        \* which entry point started it: "http" or "stdio"
    doc,          \* the parsed schema document
    phase,        \* where the start-up of this server instance stands
    tools,        \* OpenAPISchemaParser.tools
    toolOrigin,   \* for each compiled tool, the place of its operation in doc
    serverTools,  \* ArgoMCPServer.tools
    initError,    \* the error initialize() threw, "none" when none
    connected,    \* the server is connected to its transport
    httpStatus,   \* the status the POST handler answered with, 0 when none
    exitCode,     \* the code the process exited with, -1 while it runs
    lastList,     \* the tools/list result being returned: the names listed
    lastCall,     \* the tools/call being answered: its input, the request sent, its result
    inflight,     \* the tools/call handlers awaiting the HTTP client, by request
    retry,        \* one ArgoClient.request: its RetryStrategy.execute and the attempts made
    shutdown,     \* the process: its listeners, the graceful shutdown and its exit
    web           \* the HTTP entry point: the requests it answers and its session tables

vars == <<parserKind, entry, doc, phase, tools, toolOrigin, serverTools, initError,
          connected, httpStatus, exitCode, lastList, lastCall, inflight, retry, shutdown, web>>

\* The variables of one ArgoMCPServer, and the others.
serverVars == <<parserKind, entry, doc, phase, tools, toolOrigin, serverTools, initError,
                connected, httpStatus, exitCode, lastList, lastCall, inflight>>
others == <<retry, shutdown, web>>
\* The value of a variable of a part that the specification at hand leaves out.
Off == [pc |-> "off"]

(***************************************************************************)
(* Bounds of the model.                                                    *)
(***************************************************************************)
\* Frames the JavaScript call stack grants resolveSchema before it throws
\* RangeError (the real limit is some ten thousand frames).
MaxStack == 9
\* Requests a client has outstanding at a time.
MaxInFlight == 2
(***************************************************************************)
(* Strings.                                                                *)
(***************************************************************************)
LowerOf == [A |-> "a", B |-> "b", C |-> "c", D |-> "d", E |-> "e", F |-> "f", G |-> "g",
    H |-> "h", I |-> "i", J |-> "j", K |-> "k", L |-> "l", M |-> "m", N |-> "n", O |-> "o",
    P |-> "p", Q |-> "q", R |-> "r", S |-> "s", T |-> "t", U |-> "u", V |-> "v", W |-> "w",
    X |-> "x", Y |-> "y", Z |-> "z"]
UpperOf == [a |-> "A", b |-> "B", c |-> "C", d |-> "D", e |-> "E", f |-> "F", g |-> "G",
    h |-> "H", i |-> "I", j |-> "J", k |-> "K", l |-> "L", m |-> "M", n |-> "N", o |-> "O",
    p |-> "P", q |-> "Q", r |-> "R", s |-> "S", t |-> "T", u |-> "U", v |-> "V", w |-> "W",
    x |-> "X", y |-> "Y", z |-> "Z"]

\* String.prototype.toLowerCase / toUpperCase, one character at a time.
toLowerCase(s) == [k \in DOMAIN s |-> IF s[k] \in DOMAIN LowerOf THEN LowerOf[s[k]] ELSE s[k]]
toUpperCase(s) == [k \in DOMAIN s |-> IF s[k] \in DOMAIN UpperOf THEN UpperOf[s[k]] ELSE s[k]]

\* s.charAt(0).toUpperCase() + s.slice(1)
Capitalize(s) == IF s = <<>> THEN <<>> ELSE toUpperCase(<<Head(s)>>) \o Tail(s)

\* s.startsWith(p)
startsWith(s, p) == Len(s) >= Len(p) /\ SubSeq(s, 1, Len(p)) = p

\* s.split(sep) for a one-character separator: the pieces between separators.
RECURSIVE SplitFrom(_, _, _, _)
SplitFrom(s, sep, k, cur) ==
    IF k > Len(s) THEN <<cur>>
    ELSE IF s[k] = sep THEN <<cur>> \o SplitFrom(s, sep, k + 1, <<>>)
    ELSE SplitFrom(s, sep, k + 1, Append(cur, s[k]))
split(s, sep) == SplitFrom(s, sep, 1, <<>>)

\* Array.prototype.join('')
RECURSIVE Concat(_)
Concat(ss) == IF ss = <<>> THEN <<>> ELSE Head(ss) \o Concat(Tail(ss))

\* s.indexOf(t): the first position where t occurs in s, 0 when it does not.
IndexOf(s, t) ==
    LET hits == {k \in 1..(Len(s) - Len(t) + 1) : SubSeq(s, k, k + Len(t) - 1) = t}
    IN  IF hits = {} THEN 0 ELSE CHOOSE k \in hits : \A j \in hits : k <= j

Range(f) == {f[k] : k \in DOMAIN f}

(***************************************************************************)
(* JSON objects.                                                           *)
(***************************************************************************)
Has(o, k) == k \in DOMAIN o
Put(o, k, v) == [y \in DOMAIN o \cup {k} |-> IF y = k THEN v ELSE o[y]]
Del(o, k) == [y \in DOMAIN o \ {k} |-> o[y]]
\* Object.assign(a, b): the keys of both, b's value on a shared key.
Assign(a, b) == [y \in DOMAIN a \cup DOMAIN b |-> IF y \in DOMAIN b THEN b[y] ELSE a[y]]
EmptyObj == [y \in {} |-> 0]

(***************************************************************************)
(* Results of calls that may throw.                                        *)
(***************************************************************************)
Ok(v) == [ok |-> TRUE, v |-> v]
Throw(e) == [ok |-> FALSE, err |-> e]

\* The value undefined, where the code tests for it.
UNDEF == [undefined |-> TRUE]
IsUndef(v) == Has(v, "undefined")

\* The first result of a sequence of results that threw, else the results' values.
FirstThrow(rs) == rs[CHOOSE k \in DOMAIN rs : ~rs[k].ok /\ \A j \in DOMAIN rs : j < k => rs[j].ok]
AllOk(rs) == \A k \in DOMAIN rs : rs[k].ok

(***************************************************************************)
(* Version tests of the document.                                          *)
(***************************************************************************)
V2Marker == <<"2", ".", "0">>
V3Prefix == <<"3", ".">>

\* guarded parser: isSwagger2(), isOpenAPI3()
isSwagger2(d) == Has(d, "swagger") /\ d.swagger = V2Marker
isOpenAPI3(d) == Has(d, "openapi") /\ startsWith(d.openapi, V3Prefix)

\* adapting parser: detectVersion() sets the field isOpenAPI3 or throws.
detectVersion(d) ==
    IF Has(d, "openapi") /\ startsWith(d.openapi, V3Prefix) THEN Ok(TRUE)
    ELSE IF Has(d, "swagger") /\ d.swagger = V2Marker THEN Ok(FALSE)
    ELSE Throw("SchemaParseError")

(***************************************************************************)
(* Reference resolution.  A reference is the sequence of the segments of   *)
(* its pointer, "#" first: #/definitions/A is <<"#", "definitions", "A">>. *)
(***************************************************************************)
\* current = current[part] for each part; UNDEF as soon as a part is absent.
RECURSIVE Walk(_, _)
Walk(cur, parts) ==
    IF parts = <<>> THEN cur
    ELSE IF IsUndef(cur) \/ ~Has(cur, Head(parts)) THEN UNDEF
    ELSE Walk(cur[Head(parts)], Tail(parts))

\* guarded parser: an absent segment gives the fallback {type: object}.
resolveRefG(d, ref) ==
    LET target == Walk(d, Tail(ref))
    IN  IF IsUndef(target) THEN Ok([type |-> "object"]) ELSE Ok(target)

\* adapting parser: rebased on the definitions / components store; an absent
\* segment throws.  A pointer without segments after the rebase returns the
\* store itself, undefined when the document has none.
resolveRefA(d, v3, ref) ==
    LET parts == Tail(ref)
        rebase2 == ~v3 /\ parts # <<>> /\ Head(parts) = "definitions"
        rebase3 == v3 /\ parts # <<>> /\ Head(parts) = "components"
        start == IF rebase2 THEN (IF Has(d, "definitions") THEN d.definitions ELSE UNDEF)
                 ELSE IF rebase3 THEN (IF Has(d, "components") THEN d.components ELSE UNDEF)
                 ELSE d
        rest == IF rebase2 \/ rebase3 THEN Tail(parts) ELSE parts
        target == Walk(start, rest)
    IN  IF rest # <<>> /\ IsUndef(target) THEN Throw("SchemaParseError") ELSE Ok(target)

\* [...new Set(xs)]: the first occurrence of each element, in order.
RECURSIVE Dedup(_)
Dedup(xs) ==
    IF xs = <<>> THEN <<>>
    ELSE LET front == Dedup(SubSeq(xs, 1, Len(xs) - 1))
             x == xs[Len(xs)]
         IN  IF x \in Range(front) THEN front ELSE Append(front, x)

\* mergeSchemas: the shallow merge of the resolved allOf branches.
\* Object.assign the other way round: the earlier branch keeps a shared key.
RECURSIVE MergePropsEarlierWins(_)
MergePropsEarlierWins(ss) ==
    IF ss = <<>> THEN EmptyObj
    ELSE IF Has(ss[Len(ss)], "properties")
         THEN Assign(ss[Len(ss)].properties, MergePropsEarlierWins(SubSeq(ss, 1, Len(ss) - 1)))
         ELSE MergePropsEarlierWins(SubSeq(ss, 1, Len(ss) - 1))
RECURSIVE MergeProps(_)
MergeProps(ss) ==
    IF ss = <<>> THEN EmptyObj
    ELSE LET s == ss[Len(ss)]
             front == MergeProps(SubSeq(ss, 1, Len(ss) - 1))
         IN  IF Has(s, "properties") THEN Assign(front, s.properties) ELSE front
RECURSIVE MergeRequired(_)
MergeRequired(ss) ==
    IF ss = <<>> THEN <<>>
    ELSE (IF Has(Head(ss), "required") THEN Head(ss).required ELSE <<>>) \o MergeRequired(Tail(ss))
mergeSchemas(ss) ==
    LET required == Dedup(MergeRequired(ss))
        merged == [type |-> "object", properties |-> MergeProps(ss)]
    IN  IF required = <<>> THEN merged ELSE Put(merged, "required", required)

\* The placeholder the cycle guard returns.
CircularPlaceholder(ref) ==
    [type |-> "object", description |-> <<"Circular reference to">> \o ref]

(***************************************************************************)
(* resolveSchema.  depth counts the frames of the recursion; beyond        *)
(* MaxStack the engine throws RangeError (in either parser).               *)
(***************************************************************************)
\* (schema.oneOf || schema.anyOf)[0]; undefined for an empty list.
Alternatives(schema) == IF Has(schema, "oneOf") THEN schema.oneOf ELSE schema.anyOf
\* The last alternative in place of the first.
LastBranch(schema) ==
    IF Alternatives(schema) = <<>> THEN UNDEF
    ELSE Alternatives(schema)[Len(Alternatives(schema))]
FirstBranch(schema) ==
    IF Alternatives(schema) = <<>> THEN UNDEF ELSE Alternatives(schema)[1]

\* The properties of a schema, each resolved by results rs; the first throw wins.
PropsThrow(rs) == rs[CHOOSE k \in DOMAIN rs : ~rs[k].ok]

\* guarded parser: visited is the Set of references on the active path, which
\* every call shares and changes in place.  A call returns its result r (a
\* value or a throw) and the Set as it leaves it.
\* visited.delete(ref) without effect.
ReleaseNothing(visited, ref) == visited
\* visited.delete(ref)
Release(visited, ref) == visited \ {ref}

\* The keys of an object in the order Object.entries lists them.
RECURSIVE KeyOrder(_)
KeyOrder(keys) ==
    IF keys = {} THEN <<>>
    ELSE <<CHOOSE k \in keys : TRUE>> \o KeyOrder(keys \ {CHOOSE k \in keys : TRUE})

\* The $ref branch after the recursive call: the reference is released unless
\* the call threw.
AfterRef(out, ref) ==
    IF out.r.ok THEN [r |-> out.r, visited |-> Release(out.visited, ref)] ELSE out

\* One more element of a map(): the results so far, and the Set.
MapStep(acc, out) ==
    IF ~acc.ok THEN acc
    ELSE [ok |-> out.r.ok, rs |-> Append(acc.rs, out.r), visited |-> out.visited]

\* The allOf branch after the map.
AfterAllOf(acc) ==
    [r |-> IF acc.ok THEN Ok(mergeSchemas([k \in DOMAIN acc.rs |-> acc.rs[k].v]))
           ELSE acc.rs[Len(acc.rs)],
     visited |-> acc.visited]

\* The copy of the schema with its resolved properties (named by keys, in
\* order) and its resolved items.
AfterNested(schema, keys, props, items) ==
    IF ~props.ok THEN [r |-> props.rs[Len(props.rs)], visited |-> props.visited]
    ELSE IF ~items.r.ok THEN items
    ELSE [r |-> Ok([k \in DOMAIN schema |->
                       IF k = "properties"
                       THEN [x \in DOMAIN schema.properties |->
                                props.rs[CHOOSE n \in DOMAIN keys : keys[n] = x].v]
                       ELSE IF k = "items" THEN items.r.v
                       ELSE schema[k]]),
          visited |-> items.visited]

RECURSIVE resolveSchemaVisited(_, _, _, _)
RECURSIVE MapResolve(_, _, _, _)

\* schemas.map(s => this.resolveSchema(s, visited)), from accumulator acc on.
MapResolve(d, schemas, acc, depth) ==
    IF schemas = <<>> \/ ~acc.ok THEN acc
    ELSE MapResolve(d, Tail(schemas),
                    MapStep(acc, resolveSchemaVisited(d, Head(schemas), acc.visited, depth)),
                    depth)

\* The properties of the schema resolved, then its items with the Set the
\* properties left.
NestedWith(d, schema, keys, props, depth) ==
    AfterNested(schema, keys, props,
                IF Has(schema, "items") /\ props.ok
                THEN resolveSchemaVisited(d, schema.items, props.visited, depth)
                ELSE [r |-> Ok(UNDEF), visited |-> props.visited])
NestedIn(d, schema, keys, visited, depth) ==
    NestedWith(d, schema, keys,
               MapResolve(d, [n \in DOMAIN keys |-> schema.properties[keys[n]]],
                          [ok |-> TRUE, rs |-> <<>>, visited |-> visited], depth),
               depth)

resolveSchemaVisited(d, schema, visited, depth) ==
    IF depth > MaxStack THEN [r |-> Throw("RangeError"), visited |-> visited]
    ELSE IF IsUndef(schema) THEN [r |-> Ok([type |-> "string"]), visited |-> visited]
    ELSE IF Has(schema, "ref") THEN
        IF schema.ref \in visited
        THEN [r |-> Ok(CircularPlaceholder(schema.ref)), visited |-> visited]
        ELSE AfterRef(resolveSchemaVisited(d, resolveRefG(d, schema.ref).v,
                                           visited \cup {schema.ref}, depth + 1),
                      schema.ref)
    ELSE IF Has(schema, "allOf") THEN
        AfterAllOf(MapResolve(d, schema.allOf, [ok |-> TRUE, rs |-> <<>>, visited |-> visited],
                              depth + 1))
    ELSE IF Has(schema, "oneOf") \/ Has(schema, "anyOf") THEN
        resolveSchemaVisited(d, FirstBranch(schema), visited, depth + 1)
    ELSE NestedIn(d, schema,
                  IF Has(schema, "properties") THEN KeyOrder(DOMAIN schema.properties) ELSE <<>>,
                  visited, depth + 1)

\* guarded parser: resolveSchema(schema, visited), its result.
resolveSchemaG(d, schema, visited, depth) == resolveSchemaVisited(d, schema, visited, depth).r

\* adapting parser: no visited set; resolveRef may throw.
RECURSIVE resolveSchemaA(_, _, _, _)
resolveSchemaA(d, v3, schema, depth) ==
    IF depth > MaxStack THEN Throw("RangeError")
    ELSE IF IsUndef(schema) THEN Ok([type |-> "string"])
    ELSE IF Has(schema, "ref") THEN
        LET resolved == resolveRefA(d, v3, schema.ref)
        IN  IF resolved.ok THEN resolveSchemaA(d, v3, resolved.v, depth + 1) ELSE resolved
    ELSE IF Has(schema, "allOf") THEN
        LET rs == [k \in DOMAIN schema.allOf |->
                      resolveSchemaA(d, v3, schema.allOf[k], depth + 1)]
        IN  IF AllOk(rs) THEN Ok(mergeSchemas([k \in DOMAIN rs |-> rs[k].v]))
            ELSE FirstThrow(rs)
    ELSE IF Has(schema, "oneOf") \/ Has(schema, "anyOf") THEN
        resolveSchemaA(d, v3, FirstBranch(schema), depth + 1)
    ELSE
        LET ps == IF Has(schema, "properties")
                  THEN [k \in DOMAIN schema.properties |->
                           resolveSchemaA(d, v3, schema.properties[k], depth + 1)]
                  ELSE EmptyObj
            it == IF Has(schema, "items")
                  THEN resolveSchemaA(d, v3, schema.items, depth + 1)
                  ELSE Ok(UNDEF)
            r1 == IF Has(schema, "properties")
                  THEN Put(schema, "properties", [k \in DOMAIN ps |-> ps[k].v])
                  ELSE schema
        IN  IF ~AllOk(ps) THEN PropsThrow(ps)
            ELSE IF ~it.ok THEN it
            ELSE IF Has(schema, "items") THEN Ok(Put(r1, "items", it.v))
            ELSE Ok(r1)

\* resolveRef as the parser of kind pk runs it on document d.
resolveRef(pk, d, ref) ==
    IF pk = "guarded" THEN resolveRefG(d, ref) ELSE resolveRefA(d, isOpenAPI3(d), ref)

\* resolveSchema as the parser of kind pk runs it on a fragment of document d
\* (the adapting parser with the version detectVersion found).
resolveSchema(pk, d, schema) ==
    IF pk = "guarded" THEN resolveSchemaG(d, schema, {}, 1)
    ELSE resolveSchemaA(d, detectVersion(d).v, schema, 1)

(***************************************************************************)
(* Input schema assembly.                                                  *)
(***************************************************************************)
kBody == <<"b", "o", "d", "y">>
JsonContent == "application/json"

\* {...schema, description: desc}; desc undefined leaves no description.
WithDescription(schema, hasDesc, desc) ==
    IF hasDesc THEN Put(schema, "description", desc) ELSE Del(schema, "description")

\* required.length > 0 ? required : undefined
InputSchema(properties, required) ==
    LET base == [type |-> "object", properties |-> properties, additionalProperties |-> FALSE]
    IN  IF required = <<>> THEN base ELSE Put(base, "required", required)

IsRequired(p) == Has(p, "required") /\ p.required
ParamSchemaOrString(p) == IF Has(p, "schema") THEN p.schema ELSE [type |-> "string"]
ParamSchemaOrObject(p) == IF Has(p, "schema") THEN p.schema ELSE [type |-> "object"]
ParamDescription(p) == IF Has(p, "description") THEN p.description ELSE <<>>

\* operation.requestBody?.content?.['application/json']?.schema
HasJsonBodySchema(op) ==
    /\ Has(op, "requestBody")
    /\ Has(op.requestBody, "content")
    /\ Has(op.requestBody.content, JsonContent)
    /\ Has(op.requestBody.content[JsonContent], "schema")
JsonBodySchema(op) == op.requestBody.content[JsonContent].schema

Parameters(op) == IF Has(op, "parameters") THEN op.parameters ELSE <<>>

\* operation.parameters.find(p => p.in === 'body'): its index, 0 when none.
FindBodyParam(ps) ==
    LET hits == {k \in DOMAIN ps : ps[k]["in"] = "body"}
    IN  IF hits = {} THEN 0 ELSE CHOOSE k \in hits : \A j \in hits : k <= j

\* guarded parser, Swagger 2.0 parameter without a schema: its own fields,
\* type defaulting to string, the undefined ones removed.
LegacyFields == {"format", "enum", "items", "minimum", "maximum", "minLength", "maxLength", "pattern"}
LegacyParamSchema(p) ==
    [k \in {"type"} \cup (LegacyFields \cap DOMAIN p) |->
        IF k = "type" THEN (IF Has(p, "type") THEN p.type ELSE "string") ELSE p[k]]

\* adapting parser: convertSwaggerParamToSchema
convertSwaggerParamToSchema(p) ==
    LET s1 == IF Has(p, "type") THEN [type |-> p.type] ELSE EmptyObj
        s2 == IF Has(p, "items") THEN Put(s1, "items", p.items) ELSE s1
    IN  IF Has(p, "type") /\ p.type = "integer" THEN Put(s2, "type", "number") ELSE s2

\* guarded parser: the schema of one non-body parameter: a Swagger 2.0
\* parameter without a schema is converted, any other is resolved from
\* param.schema (OpenAPI 3.x: param.schema || {type: 'string'}).
ParamSchemaG(d, p) ==
    IF isSwagger2(d) /\ ~Has(p, "schema") THEN Ok(LegacyParamSchema(p))
    ELSE resolveSchemaG(d, ParamSchemaOrString(p), {}, 1)

\* The property added, the required flag of the parameter ignored.
AddPropertyNotRequired(acc, key, schema, hasDesc, desc, req) ==
    Ok([properties |-> Put(acc.v.properties, key, WithDescription(schema, hasDesc, desc)),
        required |-> acc.v.required])
\* properties[key] = {...schema, description}; required.push(key) if required.
AddProperty(acc, key, schema, hasDesc, desc, req) ==
    Ok([properties |-> Put(acc.v.properties, key, WithDescription(schema, hasDesc, desc)),
        required |-> IF req THEN Append(acc.v.required, key) ELSE acc.v.required])

\* guarded parser: the loop over operation.parameters.  acc holds properties
\* and required as built so far, or the error thrown; r is the schema of the
\* parameter at hand.
ParamStepG(d, p, acc, r) ==
    IF isSwagger2(d) /\ p["in"] = "body" THEN acc
    ELSE IF ~r.ok THEN r
    ELSE AddProperty(acc, p.name, r.v, Has(p, "description"), ParamDescription(p), IsRequired(p))
RECURSIVE ParamLoopG(_, _, _)
ParamLoopG(d, ps, acc) ==
    IF ps = <<>> \/ ~acc.ok THEN acc
    ELSE ParamLoopG(d, Tail(ps), ParamStepG(d, Head(ps), acc, ParamSchemaG(d, Head(ps))))

NoProperties == Ok([properties |-> EmptyObj, required |-> <<>>])

\* The request body of an operation as the guarded parser finds it: none, or
\* its schema, description and required flag.
NoBody == [declared |-> FALSE]
BodyOfG(d, op, b) ==
    IF isOpenAPI3(d) /\ HasJsonBodySchema(op)
    THEN [declared |-> TRUE, schema |-> JsonBodySchema(op), description |-> <<"Request body">>,
          required |-> Has(op.requestBody, "required") /\ op.requestBody.required]
    ELSE IF isSwagger2(d) /\ Has(op, "parameters") /\ b # 0
    THEN [declared |-> TRUE, schema |-> ParamSchemaOrObject(op.parameters[b]),
          description |-> IF ParamDescription(op.parameters[b]) # <<>>
                          THEN op.parameters[b].description ELSE <<"Request body">>,
          required |-> IsRequired(op.parameters[b])]
    ELSE NoBody

\* properties.body = {...bodySchema, description}; the input schema returned.
FinishInputSchema(loop, body, bodyR) ==
    IF ~loop.ok THEN loop
    ELSE IF ~body.declared THEN Ok(InputSchema(loop.v.properties, loop.v.required))
    ELSE IF ~bodyR.ok THEN bodyR
    ELSE Ok(InputSchema(Put(loop.v.properties, kBody, Put(bodyR.v, "description", body.description)),
                        IF body.required THEN Append(loop.v.required, kBody) ELSE loop.v.required))

\* guarded parser: buildInputSchema
BuildWithBodyG(d, op, body) ==
    FinishInputSchema(ParamLoopG(d, Parameters(op), NoProperties), body,
                      IF body.declared THEN resolveSchemaG(d, body.schema, {}, 1) ELSE Ok(UNDEF))
buildInputSchemaG(d, op) == BuildWithBodyG(d, op, BodyOfG(d, op, FindBodyParam(Parameters(op))))

\* adapting parser: buildInputSchemaV3
ParamStepV3(p, acc, r) ==
    IF ~r.ok THEN r
    ELSE AddProperty(acc, p.name, r.v, Has(p, "description"), ParamDescription(p), IsRequired(p))
RECURSIVE ParamLoopV3(_, _, _)
ParamLoopV3(d, ps, acc) ==
    IF ps = <<>> \/ ~acc.ok THEN acc
    ELSE ParamLoopV3(d, Tail(ps),
                     ParamStepV3(Head(ps), acc, resolveSchemaA(d, TRUE, ParamSchemaOrString(Head(ps)), 1)))
BodyOfV3(op) ==
    IF HasJsonBodySchema(op)
    THEN [declared |-> TRUE, schema |-> JsonBodySchema(op), description |-> <<"Request body">>,
          required |-> Has(op.requestBody, "required") /\ op.requestBody.required]
    ELSE NoBody
BuildWithBodyV3(d, op, body) ==
    FinishInputSchema(ParamLoopV3(d, Parameters(op), NoProperties), body,
                      IF body.declared THEN resolveSchemaA(d, TRUE, body.schema, 1) ELSE Ok(UNDEF))
buildInputSchemaV3(d, op) == BuildWithBodyV3(d, op, BodyOfV3(op))

\* adapting parser: buildInputSchemaV2.  A body parameter becomes the property
\* body, in its place among the parameters.
ParamStepV2(p, acc, r) ==
    IF ~r.ok THEN r
    ELSE IF p["in"] = "body"
    THEN AddProperty(acc, kBody, r.v, TRUE,
                     IF ParamDescription(p) # <<>> THEN p.description ELSE <<"Request body">>,
                     IsRequired(p))
    ELSE AddProperty(acc, p.name, r.v, Has(p, "description"), ParamDescription(p), IsRequired(p))
ParamSchemaV2(d, p) ==
    IF p["in"] = "body" THEN resolveSchemaA(d, FALSE, ParamSchemaOrObject(p), 1)
    ELSE Ok(convertSwaggerParamToSchema(p))
RECURSIVE ParamLoopV2(_, _, _)
ParamLoopV2(d, ps, acc) ==
    IF ps = <<>> \/ ~acc.ok THEN acc
    ELSE ParamLoopV2(d, Tail(ps), ParamStepV2(Head(ps), acc, ParamSchemaV2(d, Head(ps))))
buildInputSchemaV2(d, op) ==
    FinishInputSchema(ParamLoopV2(d, Parameters(op), NoProperties), NoBody, Ok(UNDEF))

(***************************************************************************)
(* Tool compilation.                                                       *)
(***************************************************************************)
mGet == <<"g", "e", "t">>
mPost == <<"p", "o", "s", "t">>
mPut == <<"p", "u", "t">>
mPatch == <<"p", "a", "t", "c", "h">>
mDelete == <<"d", "e", "l", "e", "t", "e">>
mHead == <<"h", "e", "a", "d">>
mOptions == <<"o", "p", "t", "i", "o", "n", "s">>

isHttpMethod(method) ==
    toLowerCase(method) \in {mGet, mPost, mPut, mPatch, mDelete, mHead, mOptions}

\* A value of a path item that is no object (a string such as a path-level summary).
Scalar == [scalar |-> TRUE]
IsObject(v) == ~Has(v, "scalar")

\* guarded parser: isOperation
isOperationG(obj) == IsObject(obj) /\ Has(obj, "operationId")
\* adapting parser: isOperation
isOperationA(obj) ==
    IsObject(obj) /\ ({"operationId", "summary", "description", "parameters", "responses"} \cap DOMAIN obj # {})

\* path.split('/').filter(p => p && !p.startsWith('{'))
RECURSIVE PathParts(_)
PathParts(segs) ==
    IF segs = <<>> THEN <<>>
    ELSE (IF Head(segs) # <<>> /\ ~startsWith(Head(segs), <<"{">>) THEN <<Head(segs)>> ELSE <<>>)
         \o PathParts(Tail(segs))

\* adapting parser: generateOperationId
generateOperationId(method, path) ==
    LET pathParts == PathParts(split(path, "/"))
        camelCasePath == Concat([k \in DOMAIN pathParts |->
                                    IF k = 1 THEN pathParts[k] ELSE Capitalize(pathParts[k])])
    IN  toLowerCase(method) \o Capitalize(camelCasePath)

\* operation.operationId || generateOperationId(method, pathTemplate)
OperationIdA(op, method, path) ==
    IF Has(op, "operationId") /\ op.operationId # <<>> THEN op.operationId
    ELSE generateOperationId(method, path)

\* buildDescription: the parts it joins.
buildDescription(op, method, path) ==
    LET summary == IF Has(op, "summary") THEN op.summary ELSE <<>>
        description == IF Has(op, "description") THEN op.description ELSE <<>>
        head == IF summary # <<>> THEN [summary |-> summary]
                ELSE IF description # <<>> THEN [firstLine |-> Head(description)]
                ELSE [method |-> toUpperCase(method), path |-> path]
        tags == IF Has(op, "tags") /\ op.tags # <<>> THEN <<[tags |-> op.tags]>> ELSE <<>>
        full == IF description # <<>> /\ summary # <<>> /\ description # summary
                THEN <<[description |-> description]>> ELSE <<>>
    IN  <<head>> \o tags \o full

\* operationToTool: the tool, or UNDEF (null) when buildInputSchema threw.
ToolOf(name, description, inputSchema) ==
    IF inputSchema.ok
    THEN [name |-> name, description |-> description, inputSchema |-> inputSchema.v]
    ELSE UNDEF
operationToToolG(d, path, method, op) ==
    ToolOf(op.operationId, buildDescription(op, method, path), buildInputSchemaG(d, op))
operationToToolA(d, v3, path, method, op) ==
    ToolOf(op.operationId, buildDescription(op, method, path),
           IF v3 THEN buildInputSchemaV3(d, op) ELSE buildInputSchemaV2(d, op))

\* Object.entries(paths) and, within each, Object.entries(pathItem), in order:
\* each entry with its path template and its place <<path index, key index>>.
RECURSIVE EntriesFrom(_, _, _)
EntriesFrom(paths, i, j) ==
    IF i > Len(paths) THEN <<>>
    ELSE IF j > Len(paths[i].item) THEN EntriesFrom(paths, i + 1, 1)
    ELSE <<[path |-> paths[i].template, method |-> paths[i].item[j].key,
            operation |-> paths[i].item[j].value, at |-> <<i, j>>]>>
         \o EntriesFrom(paths, i, j + 1)
Entries(d) == EntriesFrom(d.paths, 1, 1)

\* generateTools: acc holds tools, the place each was compiled from (toolOrigin,
\* which the code does not keep) and processedOperations.
NoTools == [tools |-> <<>>, origin |-> <<>>, processed |-> {}]
\* AddTool that marks the name as processed also when the tool is null.
AddToolReservingName(acc, tool, at, operationId) ==
    IF IsUndef(tool) THEN [acc EXCEPT !.processed = acc.processed \cup {operationId}]
    ELSE [tools |-> Append(acc.tools, tool), origin |-> Append(acc.origin, at),
          processed |-> acc.processed \cup {operationId}]
AddTool(acc, tool, at, operationId) ==
    IF IsUndef(tool) THEN acc
    ELSE [tools |-> Append(acc.tools, tool), origin |-> Append(acc.origin, at),
          processed |-> acc.processed \cup {operationId}]

SkipG(e, processed) ==
    \/ ~isHttpMethod(e.method)
    \/ ~isOperationG(e.operation)
    \/ e.operation.operationId = <<>>
    \/ e.operation.operationId \in processed
GenStepG(d, e, acc) ==
    IF SkipG(e, acc.processed) THEN acc
    ELSE AddTool(acc, operationToToolG(d, e.path, e.method, e.operation), e.at,
                 e.operation.operationId)
RECURSIVE GenLoopG(_, _, _)
GenLoopG(d, es, acc) ==
    IF es = <<>> THEN acc ELSE GenLoopG(d, Tail(es), GenStepG(d, Head(es), acc))
generateToolsG(d) == GenLoopG(d, Entries(d), NoTools)

\* SkipA without the test of processedOperations.
SkipAIgnoringProcessed(e, operationId, processed) ==
    \/ ~isHttpMethod(e.method)
    \/ ~isOperationA(e.operation)
SkipA(e, operationId, processed) ==
    \/ ~isHttpMethod(e.method)
    \/ ~isOperationA(e.operation)
    \/ operationId \in processed
GenStepWithIdA(d, v3, e, acc, operationId) ==
    IF SkipA(e, operationId, acc.processed) THEN acc
    ELSE AddTool(acc, operationToToolA(d, v3, e.path, e.method,
                                       Put(e.operation, "operationId", operationId)),
                 e.at, operationId)
GenStepA(d, v3, e, acc) ==
    GenStepWithIdA(d, v3, e, acc,
                   IF IsObject(e.operation) THEN OperationIdA(e.operation, e.method, e.path)
                   ELSE <<>>)
RECURSIVE GenLoopA(_, _, _, _)
GenLoopA(d, v3, es, acc) ==
    IF es = <<>> THEN acc ELSE GenLoopA(d, v3, Tail(es), GenStepA(d, v3, Head(es), acc))
generateToolsA(d, v3) == GenLoopA(d, v3, Entries(d), NoTools)

\* getOperationInfo: the first entry, over all keys, whose identifier is the name.
FirstOf(es, hits) ==
    IF hits = {} THEN UNDEF ELSE es[CHOOSE k \in hits : \A j \in hits : k <= j]
HitsG(es, operationId) ==
    {k \in DOMAIN es : isOperationG(es[k].operation) /\ es[k].operation.operationId = operationId}
HitsA(es, operationId) ==
    {k \in DOMAIN es : isOperationA(es[k].operation)
                       /\ OperationIdA(es[k].operation, es[k].method, es[k].path) = operationId}
InfoG(es, operationId) == FirstOf(es, HitsG(es, operationId))
InfoA(es, operationId) == FirstOf(es, HitsA(es, operationId))
getOperationInfoG(d, operationId) == InfoG(Entries(d), operationId)
getOperationInfoA(d, operationId) == InfoA(Entries(d), operationId)

\* validateSchema (both parsers): the paths mapping must exist and be non-empty.
\* HasPaths without the test for an empty mapping.
HasPathsKeyOnly(d) == Has(d, "paths")
HasPaths(d) == Has(d, "paths") /\ d.paths # <<>>

\* OpenAPISchemaParser.initialize: the compiled tools, or the SchemaParseError.
initializeG(d) ==
    IF ~isOpenAPI3(d) /\ ~isSwagger2(d) THEN Throw("SchemaParseError")
    ELSE IF ~HasPaths(d) THEN Throw("SchemaParseError")
    ELSE Ok(generateToolsG(d))
InitializeWithVersionA(d, version) ==
    IF ~version.ok THEN Throw("SchemaParseError")
    ELSE IF ~HasPaths(d) THEN Throw("SchemaParseError")
    ELSE Ok(generateToolsA(d, version.v))
initializeA(d) == InitializeWithVersionA(d, detectVersion(d))

(***************************************************************************)
(* Request dispatch.                                                       *)
(***************************************************************************)
\* path.match(/{([^}]+)}/g): the placeholders of the template, left to right.
NextClose(s, i) ==
    LET js == {j \in (i + 1)..Len(s) : s[j] = "}"}
    IN  IF js = {} THEN 0 ELSE CHOOSE j \in js : \A k \in js : j <= k
RECURSIVE MatchFrom(_, _)
MatchFrom(s, i) ==
    IF i > Len(s) THEN <<>>
    ELSE IF s[i] # "{" THEN MatchFrom(s, i + 1)
    ELSE LET j == NextClose(s, i)
         IN  IF j = 0 THEN <<>>
             ELSE IF j = i + 1 THEN MatchFrom(s, i + 1)
             ELSE <<SubSeq(s, i, j)>> \o MatchFrom(s, j + 1)
pathParamMatches(path) == MatchFrom(path, 1)

\* match.slice(1, -1)
ParamNameOf(match) == SubSeq(match, 2, Len(match) - 1)

\* The replacement text String.prototype.replace substitutes for a string
\* pattern: $$ is $, $& the matched text, $` the text before it, $' the text
\* after it; any other $ stands for itself.
RECURSIVE GetSubstitution(_, _, _, _)
GetSubstitution(repl, matched, before, after) ==
    IF repl = <<>> THEN <<>>
    ELSE IF Head(repl) = "$" /\ Len(repl) >= 2 /\ repl[2] \in {"$", "&", "`", "'"}
    THEN (CASE repl[2] = "$" -> <<"$">>
            [] repl[2] = "&" -> matched
            [] repl[2] = "`" -> before
            [] repl[2] = "'" -> after)
         \o GetSubstitution(SubSeq(repl, 3, Len(repl)), matched, before, after)
    ELSE <<Head(repl)>> \o GetSubstitution(Tail(repl), matched, before, after)

\* url.replace(match, value): the first occurrence of match only.
replace(url, match, value) ==
    LET k == IndexOf(url, match)
        before == SubSeq(url, 1, k - 1)
        after == SubSeq(url, k + Len(match), Len(url))
    IN  IF k = 0 THEN url
        ELSE before \o GetSubstitution(value, match, before, after) \o after

\* The loop over pathParamMatches: url and pathParams as built so far.
RECURSIVE SubstituteLoop(_, _, _)
SubstituteLoop(ms, args, acc) ==
    IF ms = <<>> THEN acc
    ELSE LET paramName == ParamNameOf(Head(ms))
         IN  IF Has(args, paramName)
             THEN SubstituteLoop(Tail(ms), args,
                    [url |-> replace(acc.url, Head(ms), args[paramName]),
                     pathParams |-> Append(acc.pathParams, paramName)])
             ELSE SubstituteLoop(Tail(ms), args, acc)
BuildUrl(path, args) ==
    SubstituteLoop(pathParamMatches(path), args, [url |-> path, pathParams |-> <<>>])

\* The loop over Object.entries(args) that fills queryParams.
QueryParams(args, pathParams) ==
    LET keys == {k \in DOMAIN args : k # kBody /\ k \notin Range(pathParams)
                                     /\ ~startsWith(k, <<"_">>)}
    IN  [k \in keys |-> args[k]]

\* ArgoClient.get/post/put/patch/delete: the request handed to ArgoClient.request.
\* data and params are absent when undefined.
WithParams(request, queryParams) ==
    IF DOMAIN queryParams # {} THEN Put(request, "params", queryParams) ELSE request
ClientRequest(verb, url, withData, args, queryParams) ==
    WithParams(IF withData /\ Has(args, kBody)
               THEN [method |-> verb, url |-> url, data |-> args[kBody]]
               ELSE [method |-> verb, url |-> url],
               queryParams)

\* The switch on method.toLowerCase(): the request sent, or the throw.
SwitchMethod(method, url, args, queryParams) ==
    IF method \in {mGet, mDelete}
    THEN Ok(ClientRequest(toUpperCase(method), url, FALSE, args, queryParams))
    ELSE IF method \in {mPost, mPut, mPatch}
    THEN Ok(ClientRequest(toUpperCase(method), url, TRUE, args, queryParams))
    ELSE Throw("Unsupported HTTP method")

\* handleOpenAPITool, from the operation info on.
DispatchBuilt(info, args, built) ==
    SwitchMethod(toLowerCase(info.method), built.url, args, QueryParams(args, built.pathParams))
DispatchOperation(info, args) == DispatchBuilt(info, args, BuildUrl(info.path, args))

getOperationInfo(pk, d, operationId) ==
    IF pk = "guarded" THEN getOperationInfoG(d, operationId) ELSE getOperationInfoA(d, operationId)

\* handleOpenAPITool.  call.given is FALSE when the request carries no arguments
\* (args is undefined and args.body throws TypeError).
HandleWithInfo(info, call) ==
    IF IsUndef(info) THEN Throw("Unknown operation")
    ELSE IF ~call.given THEN Throw("TypeError")
    ELSE DispatchOperation(info, call.map)
handleOpenAPITool(pk, d, operationId, call) ==
    HandleWithInfo(getOperationInfo(pk, d, operationId), call)

\* getCustomToolHandler: handlers[name] on an object literal of twelve entries,
\* which also finds what the literal inherits from Object.prototype.
CustomToolNames ==
    << <<"h", "e", "a", "l", "t", "h", "_", "c", "h", "e", "c", "k">>,
       <<"l", "i", "s", "t", "_", "w", "o", "r", "k", "f", "l", "o", "w", "s">>,
       <<"g", "e", "t", "_", "w", "o", "r", "k", "f", "l", "o", "w">>,
       <<"w", "o", "r", "k", "f", "l", "o", "w", "_", "l", "o", "g", "s">>,
       <<"s", "u", "b", "m", "i", "t", "_", "w", "o", "r", "k", "f", "l", "o", "w">>,
       <<"r", "e", "t", "r", "y", "_", "w", "o", "r", "k", "f", "l", "o", "w">>,
       <<"t", "e", "r", "m", "i", "n", "a", "t", "e", "_", "w", "o", "r", "k", "f", "l", "o", "w">>,
       <<"g", "e", "t", "_", "r", "e", "c", "e", "n", "t", "_", "w", "o", "r", "k", "f", "l", "o", "w", "s">>,
       <<"g", "e", "t", "_", "f", "a", "i", "l", "e", "d", "_", "w", "o", "r", "k", "f", "l", "o", "w", "s">>,
       <<"g", "e", "t", "_", "r", "u", "n", "n", "i", "n", "g", "_", "w", "o", "r", "k", "f", "l", "o", "w", "s">>,
       <<"s", "e", "a", "r", "c", "h", "_", "w", "o", "r", "k", "f", "l", "o", "w", "s", "_", "b", "y", "_", "n", "a", "m", "e">>,
       <<"g", "e", "t", "_", "w", "o", "r", "k", "f", "l", "o", "w", "s", "_", "b", "y", "_", "l", "a", "b", "e", "l">> >>
nConstructor == <<"c", "o", "n", "s", "t", "r", "u", "c", "t", "o", "r">>
InheritedCallable == {nConstructor}
getCustomToolHandler(name) ==
    IF name \in Range(CustomToolNames) THEN [own |-> name]
    ELSE IF name \in InheritedCallable THEN [inherited |-> name]
    ELSE UNDEF

(***************************************************************************)
(* The documents, tool names and argument maps the model draws from.       *)
(***************************************************************************)
pX == <<"/", "x", "/", "{", "i", "d", "}">>
pA == <<"/", "a">>
pB == <<"/", "b", "/", "{", "i", "d", "}">>
pWf == <<"/", "w", "f">>
pWfNs == <<"/", "w", "f", "/", "{", "n", "s", "}", "/", "{", "i", "d", "}">>
pH == <<"/", "h", "/", "{", "i", "d", "}">>
pVersion == <<"/", "a", "p", "i", "/", "v", "1", "/", "v", "e", "r", "s", "i", "o", "n">>
kId == <<"i", "d">>
kSel == <<"s", "e", "l">>
kNs == <<"n", "s">>
kVerbose == <<"v", "e", "r", "b", "o", "s", "e">>
kMeta == <<"_", "m", "e", "t", "a">>
kNum == <<"n", "u", "m">>
kx == <<"x">>
ky == <<"y">>
kNext == <<"n", "e", "x", "t">>
ka == <<"a">>
kb == <<"b">>
kp == <<"p">>
kq == <<"q">>
nFoo == <<"f", "o", "o">>
nBar == <<"b", "a", "r">>
nNope == <<"n", "o", "p", "e">>
nGetWf == <<"g", "e", "t", "W", "f">>
nDeleteWf == <<"d", "e", "l", "e", "t", "e", "W", "f">>
nHeadH == <<"h", "e", "a", "d", "H">>
nPatchH == <<"p", "a", "t", "c", "h", "H">>
nDelH == <<"d", "e", "l", "H">>
nPostH == <<"p", "o", "s", "t", "H">>
nHealthCheck == <<"h", "e", "a", "l", "t", "h", "_", "c", "h", "e", "c", "k">>
xMeta == <<"x", "-", "m", "e", "t", "a">>
xOnly == <<"x", "-", "o", "n", "l", "y">>
keySummary == <<"s", "u", "m", "m", "a", "r", "y">>
mPatchUpper == <<"P", "A", "T", "C", "H">>
v42 == <<"4", "2">>
vTrue == <<"t", "r", "u", "e">>
vOne == <<"1">>
vAmp == <<"$", "&">>
vIdHole == <<"{", "i", "d", "}">>
vPayload == <<"{", "k", ":", "1", "}">>
vM == <<"m">>

\* The version markers: OpenAPI 3.0.0, Swagger 2.0, Swagger 1.2, none.
Versions == {"v3", "v2", "old", "none"}
Marker(ver) ==
    CASE ver = "v3" -> [openapi |-> <<"3", ".", "0", ".", "0">>]
      [] ver = "v2" -> [swagger |-> V2Marker]
      [] ver = "old" -> [swagger |-> <<"1", ".", "2">>]
      [] OTHER -> EmptyObj

\* A reference to shared definition n, in the style of the version.
RefTo(v3, n) ==
    [ref |-> IF v3 THEN <<"#", "components", "schemas", n>> ELSE <<"#", "definitions", n>>]

\* The shared-definition stores: acyclic; A refers to itself; A and B refer to
\* each other; A is not defined.
Stores == 1..4
PlainB == [type |-> "object", properties |-> (ky :> [type |-> "integer"])]
StoreOf(ds, v3) ==
    CASE ds = 1 -> [A |-> [type |-> "object", properties |-> (kx :> [type |-> "string"]),
                           required |-> <<kx>>],
                    B |-> PlainB]
      [] ds = 2 -> [A |-> [type |-> "object",
                           properties |-> (kx :> [type |-> "string"]) @@ (kNext :> RefTo(v3, "A"))],
                    B |-> PlainB]
      [] ds = 3 -> [A |-> [type |-> "object", properties |-> (kb :> RefTo(v3, "B"))],
                    B |-> [type |-> "object", properties |-> (ka :> RefTo(v3, "A")),
                           required |-> <<ka>>]]
      [] OTHER -> [B |-> PlainB]

\* The schema fragments an operation declares.
Fragments == 1..7
FragmentOf(f, v3) ==
    CASE f = 1 -> [type |-> "string"]
      [] f = 2 -> RefTo(v3, "A")
      [] f = 3 -> [type |-> "array", items |-> RefTo(v3, "A")]
      [] f = 4 -> [allOf |-> <<RefTo(v3, "A"), RefTo(v3, "B"),
                                [properties |-> (kx :> [type |-> "integer"]),
                                 required |-> <<kx>>]>>]
      [] f = 5 -> [oneOf |-> <<RefTo(v3, "B"), RefTo(v3, "A")>>]
      [] f = 6 -> [type |-> "object",
                   properties |-> (kp :> RefTo(v3, "A")) @@ (kq :> RefTo(v3, "A"))]
      [] OTHER -> [type |-> "object", additionalProperties |-> RefTo(v3, "B")]

\* Parameters and operations as a document of the version writes them.
PathParam(v3, k) ==
    IF v3 THEN [name |-> k, in |-> "path", required |-> TRUE, schema |-> [type |-> "string"]]
    ELSE [name |-> k, in |-> "path", required |-> TRUE, type |-> "string"]
SchemaParam(k, schema) == [name |-> k, in |-> "query", schema |-> schema]
ItemsParam(k, items) ==
    [name |-> k, in |-> "query", type |-> "array", items |-> items, description |-> <<"selector">>]
IntParam(k) == [name |-> k, in |-> "query", type |-> "integer", format |-> "int32"]
WithBody(v3, op, schema, req) ==
    IF v3 THEN Put(op, "requestBody",
                   [required |-> req, content |-> (JsonContent :> [schema |-> schema])])
    ELSE Put(op, "parameters",
             Parameters(op) \o <<[name |-> kBody, in |-> "body", required |-> req, schema |-> schema]>>)

\* The paths mappings.  0: no paths key; 7: an empty mapping.
Layouts == 0..7
PathsOf(l, v3, F) ==
    CASE l = 1 ->
           <<[template |-> pX, item |->
                <<[key |-> mGet, value |->
                     [operationId |-> nFoo, parameters |-> <<PathParam(v3, kId), SchemaParam(kSel, F)>>]]>>]>>
      [] l = 2 ->
           <<[template |-> pA, item |->
                <<[key |-> mPost, value |->
                     WithBody(v3, [operationId |-> nFoo, summary |-> <<"first">>], F, TRUE)]>>],
             [template |-> pB, item |->
                <<[key |-> mPut, value |->
                     WithBody(v3, [operationId |-> nFoo, parameters |-> <<PathParam(v3, kId)>>],
                              [type |-> "string"], FALSE)]>>]>>
      [] l = 3 ->
           <<[template |-> pA, item |->
                <<[key |-> xMeta, value |-> [operationId |-> nFoo, description |-> <<"meta">>]],
                  [key |-> keySummary, value |-> Scalar],
                  [key |-> mGet, value |->
                     [operationId |-> nFoo, parameters |-> <<ItemsParam(kSel, F)>>]],
                  [key |-> xOnly, value |-> [operationId |-> nBar]]>>]>>
      [] l = 4 -> <<[template |-> pA, item |-> <<>>]>>
      [] l = 5 ->
           <<[template |-> pWf, item |->
                <<[key |-> mGet, value |-> [summary |-> <<"list">>, tags |-> <<"wf">>]]>>],
             [template |-> pWfNs, item |->
                <<[key |-> mGet, value |->
                     [description |-> <<"one", "more">>,
                      parameters |-> <<PathParam(v3, kNs), PathParam(v3, kId)>>]],
                  [key |-> mDelete, value |->
                     WithBody(v3, [responses |-> TRUE,
                                   parameters |-> <<PathParam(v3, kNs), PathParam(v3, kId)>>],
                              F, FALSE)]>>]>>
      [] l = 6 ->
           <<[template |-> pH, item |->
                <<[key |-> mHead, value |->
                     [operationId |-> nHeadH, parameters |-> <<PathParam(v3, kId)>>]],
                  [key |-> mPatchUpper, value |->
                     WithBody(v3, [operationId |-> nPatchH, parameters |-> <<PathParam(v3, kId)>>],
                              F, TRUE)],
                  [key |-> mDelete, value |->
                     WithBody(v3, [operationId |-> nDelH,
                                   parameters |-> <<PathParam(v3, kId), IntParam(kNum)>>],
                              F, FALSE)],
                  [key |-> mPost, value |->
                     [operationId |-> nPostH, summary |-> <<"post">>, description |-> <<"post">>,
                      parameters |-> <<PathParam(v3, kId)>>]]>>]>>
      [] OTHER -> <<>>

MkDoc(ver, l, f, ds) ==
    LET v3 == ver = "v3"
        d1 == IF l = 0 THEN Marker(ver) ELSE Put(Marker(ver), "paths", PathsOf(l, v3, FragmentOf(f, v3)))
    IN  IF v3 THEN Put(d1, "components", [schemas |-> StoreOf(ds, v3)])
        ELSE Put(d1, "definitions", StoreOf(ds, v3))

\* The tool names a client calls, and the argument maps it sends.
CallNames == {nFoo, nBar, nNope, nGetWf, nDeleteWf, nHeadH, nPatchH, nDelH, nPostH,
              nHealthCheck, nConstructor}
ArgMaps == 0..7
ArgMapOf(a) ==
    CASE a = 1 -> (kId :> v42) @@ (kVerbose :> vTrue)
      [] a = 2 -> (kVerbose :> vTrue)
      [] a = 3 -> (kId :> vAmp)
      [] a = 4 -> (kId :> v42) @@ (kBody :> vPayload) @@ (kMeta :> vM)
      [] a = 5 -> (kNs :> vIdHole) @@ (kId :> v42)
      [] a = 6 -> (kNs :> vOne) @@ (kId :> v42) @@ (kBody :> vPayload)
      [] a = 7 -> (kBody :> vPayload)
      [] OTHER -> EmptyObj
NoArguments == [given |-> FALSE, map |-> EmptyObj]
Arguments(a) == [given |-> TRUE, map |-> ArgMapOf(a)]
Calls == {NoArguments} \cup {Arguments(a) : a \in ArgMaps}

(***************************************************************************)
(* The server.                                                             *)
(***************************************************************************)
\* getCustomTools: the twelve hand-written tools (their input schemas left out).
getCustomTools ==
    [k \in DOMAIN CustomToolNames |->
        [name |-> CustomToolNames[k], description |-> <<[summary |-> <<"custom">>]>>,
         inputSchema |-> [type |-> "object", properties |-> EmptyObj]]]

\* OpenAPISchemaParser.initialize of the parser the server holds.
initialize(pk, d) == IF pk = "guarded" THEN initializeG(d) ELSE initializeA(d)

NoCall == [made |-> FALSE]
NoList == [listed |-> FALSE]
Slots == 1..MaxInFlight
NoneInFlight == [s \in Slots |-> NoCall]

Init ==
    /\ parserKind \in {"guarded", "adapting"}
    /\ entry \in {"http", "stdio"}
    /\ \E ver \in Versions, l \in Layouts, f \in Fragments, ds \in Stores :
           doc = MkDoc(ver, l, f, ds)
    /\ phase = "constructed"
    /\ tools = <<>>
    /\ toolOrigin = <<>>
    /\ serverTools = <<>>
    /\ initError = "none"
    /\ connected = FALSE
    /\ httpStatus = 0
    /\ exitCode = -1
    /\ lastList = NoList
    /\ lastCall = NoCall
    /\ inflight = NoneInFlight
    /\ retry = Off /\ shutdown = Off /\ web = Off

\* ArgoMCPServer.initialize: the parser loads the document and compiles the
\* tools; the server appends its custom tools.  The health check that follows
\* catches its own errors.  An error of the parser is rethrown to the caller.
Initialize ==
    /\ phase = "constructed"
    /\ \E r \in {initialize(parserKind, doc)} :
           IF r.ok
           THEN /\ tools' = r.v.tools
                /\ toolOrigin' = r.v.origin
                /\ serverTools' = r.v.tools \o getCustomTools
                /\ initError' = initError
                /\ phase' = "initialized"
           ELSE /\ initError' = r.err
                /\ phase' = "initFailed"
                /\ UNCHANGED <<tools, toolOrigin, serverTools>>
    /\ UNCHANGED <<parserKind, entry, doc, connected, httpStatus, exitCode, lastList, lastCall, inflight>>
    /\ UNCHANGED others

\* index.ts (HTTP) connecting the server without awaiting initialize().
HttpConnectEarly ==
    /\ entry = "http" /\ phase = "constructed" /\ ~connected
    /\ connected' = TRUE
    /\ UNCHANGED <<parserKind, entry, doc, phase, tools, toolOrigin, serverTools, initError,
                   httpStatus, exitCode, lastList, lastCall, inflight>>
    /\ UNCHANGED others

\* index.ts (HTTP), an initialize request: after initialize() the server is
\* connected to the session's transport, which then handles the request.
HttpConnect ==
    /\ entry = "http" /\ phase = "initialized"
    /\ connected' = TRUE
    /\ phase' = "serving"
    /\ UNCHANGED <<parserKind, entry, doc, tools, toolOrigin, serverTools, initError,
                   httpStatus, exitCode, lastList, lastCall, inflight>>
    /\ UNCHANGED others

\* index.ts (HTTP): initialize() threw; the request is answered 500 and the
\* handler returns before the transport sees it.
HttpReject ==
    /\ entry = "http" /\ phase = "initFailed"
    /\ httpStatus' = 500
    /\ phase' = "rejected"
    /\ UNCHANGED <<parserKind, entry, doc, tools, toolOrigin, serverTools, initError,
                   connected, exitCode, lastList, lastCall, inflight>>
    /\ UNCHANGED others

\* index.ts (stdio): server.start(transport) after initialize().
StdioStart ==
    /\ entry = "stdio" /\ phase = "initialized"
    /\ connected' = TRUE
    /\ phase' = "serving"
    /\ UNCHANGED <<parserKind, entry, doc, tools, toolOrigin, serverTools, initError,
                   httpStatus, exitCode, lastList, lastCall, inflight>>
    /\ UNCHANGED others

\* index.ts (stdio): initialize() threw; process.exit(1).
StdioExit ==
    /\ entry = "stdio" /\ phase = "initFailed"
    /\ exitCode' = 1
    /\ phase' = "exited"
    /\ UNCHANGED <<parserKind, entry, doc, tools, toolOrigin, serverTools, initError,
                   connected, httpStatus, lastList, lastCall, inflight>>
    /\ UNCHANGED others

\* No request is being answered.
Idle == lastList = NoList /\ lastCall = NoCall

\* The tools/list handler.
ListTools ==
    /\ connected /\ Idle
    /\ lastList' = [listed |-> TRUE, names |-> [k \in DOMAIN serverTools |-> serverTools[k].name]]
    /\ UNCHANGED <<parserKind, entry, doc, phase, tools, toolOrigin, serverTools, initError,
                   connected, httpStatus, exitCode, lastCall, inflight>>
    /\ UNCHANGED others

\* The tools/call handler, as a record of what it did: the handler that ran
\* ("custom" or "openapi"), the request handed to the HTTP client (at most
\* one), and the result (isError with the error, or a plain result).
\* httpOk is whether the Argo server answered the request successfully.
\* The error leaves the handler instead of being answered.
Uncaught(error) == [isError |-> FALSE, error |-> error, thrown |-> TRUE]
\* The catch block: handleError(error) and the result with isError.
Caught(error) == [isError |-> TRUE, error |-> error, thrown |-> FALSE]
\* The try block ran to its return, or the catch block answered.
Returned(error) ==
    IF error = "none" THEN [isError |-> FALSE, error |-> "none", thrown |-> FALSE]
    ELSE Caught(error)
CallRecord(name, call, handler, sent, error) ==
    [made |-> TRUE, name |-> name, args |-> call, handler |-> handler, sent |-> sent]
        @@ Returned(error)
OpenAPIResult(name, call, r, httpOk) ==
    IF r.ok THEN CallRecord(name, call, "openapi", <<r.v>>, IF httpOk THEN "none" ELSE "ArgoAPIError")
    ELSE CallRecord(name, call, "openapi", <<>>, r.err)
CustomResult(name, call, customHandler) ==
    IF Has(customHandler, "own") /\ name = nHealthCheck
    THEN CallRecord(name, call, "custom", <<[method |-> toUpperCase(mGet), url |-> pVersion]>>, "none")
    ELSE CallRecord(name, call, "custom", <<>>, "none")
ResultWithHandler(pk, d, name, call, httpOk, customHandler) ==
    IF ~IsUndef(customHandler) THEN CustomResult(name, call, customHandler)
    ELSE OpenAPIResult(name, call, handleOpenAPITool(pk, d, name, call), httpOk)
CallResult(pk, d, name, call, httpOk) ==
    ResultWithHandler(pk, d, name, call, httpOk, getCustomToolHandler(name))

\* The names whose custom handler the model runs: health_check, and the
\* inherited constructor (Object(args), which returns without a request).
Callable(name) == name \notin Range(CustomToolNames) \/ name = nHealthCheck

CallTool(name, call, httpOk) ==
    /\ connected /\ Idle
    /\ Callable(name)
    /\ lastCall' = CallResult(parserKind, doc, name, call, httpOk)
    /\ UNCHANGED <<parserKind, entry, doc, phase, tools, toolOrigin, serverTools, initError,
                   connected, httpStatus, exitCode, lastList, inflight>>
    /\ UNCHANGED others

\* The transport sends the handler's result; the server awaits the next request.
Reply ==
    /\ connected /\ ~Idle
    /\ lastList' = NoList
    /\ lastCall' = NoCall
    /\ UNCHANGED <<parserKind, entry, doc, phase, tools, toolOrigin, serverTools, initError,
                   connected, httpStatus, exitCode, inflight>>
    /\ UNCHANGED others

Next ==
    \/ Initialize
    \/ HttpConnect
    \/ HttpReject
    \/ StdioStart
    \/ StdioExit
    \/ ListTools
    \/ \E name \in CallNames, call \in Calls, httpOk \in BOOLEAN :
           CallTool(name, call, httpOk)
    \/ Reply

Spec == Init /\ [][Next]_vars

(***************************************************************************)
(* Concurrent tools/call requests.  A handler runs without interruption    *)
(* up to the await on the HTTP client; what it has built by then (url,     *)
(* queryParams, bodyData) are locals of the invocation.  Other requests    *)
(* may be handled before the response arrives.                             *)
(***************************************************************************)
\* The locals of the invocation in slot are lost to every other invocation
\* in flight, as if they were fields of the server.
ShareLocals(flights, slot, rec) ==
    [s \in DOMAIN flights |->
        IF s = slot THEN rec
        ELSE IF flights[s].made THEN [flights[s] EXCEPT !.sent = rec.sent]
        ELSE flights[s]]
\* The invocation in slot holds what it has built.
KeepLocals(flights, slot, rec) == [flights EXCEPT ![slot] = rec]

\* The result of the invocation once the HTTP client has answered.
Outcome(rec, httpOk) ==
    IF rec.handler = "openapi" /\ rec.sent # <<>> /\ ~httpOk
    THEN [rec EXCEPT !.isError = TRUE, !.error = "ArgoAPIError"]
    ELSE rec

\* The tool names and argument maps of the concurrent requests.
ConcurrentNames == {nFoo, nPatchH, nNope, nHealthCheck}
ConcurrentCalls == {Arguments(1), Arguments(4)}

\* Documents that compile: one operation, or four on one path.
ConcurrentInit ==
    /\ parserKind \in {"guarded", "adapting"}
    /\ entry \in {"http", "stdio"}
    /\ \E ver \in {"v3", "v2"}, l \in {1, 6} : doc = MkDoc(ver, l, 1, 1)
    /\ phase = "constructed"
    /\ tools = <<>>
    /\ toolOrigin = <<>>
    /\ serverTools = <<>>
    /\ initError = "none"
    /\ connected = FALSE
    /\ httpStatus = 0
    /\ exitCode = -1
    /\ lastList = NoList
    /\ lastCall = NoCall
    /\ inflight = NoneInFlight
    /\ retry = Off /\ shutdown = Off /\ web = Off

\* The tools/call handler up to its await: the request is handed to the client.
BeginCall(slot, name, call) ==
    /\ connected
    /\ ~inflight[slot].made
    /\ Callable(name)
    /\ inflight' = KeepLocals(inflight, slot, CallResult(parserKind, doc, name, call, TRUE))
    /\ UNCHANGED <<parserKind, entry, doc, phase, tools, toolOrigin, serverTools, initError,
                   connected, httpStatus, exitCode, lastList, lastCall>>
    /\ UNCHANGED others

\* The client answers; the handler returns its result to the transport.
CompleteCall(slot, httpOk) ==
    /\ connected
    /\ inflight[slot].made
    /\ lastCall' = Outcome(inflight[slot], httpOk)
    /\ inflight' = [inflight EXCEPT ![slot] = NoCall]
    /\ UNCHANGED <<parserKind, entry, doc, phase, tools, toolOrigin, serverTools, initError,
                   connected, httpStatus, exitCode, lastList>>
    /\ UNCHANGED others

ConcurrentNext ==
    \/ Initialize
    \/ HttpConnect
    \/ StdioStart
    \/ \E slot \in Slots, name \in ConcurrentNames, call \in ConcurrentCalls :
           BeginCall(slot, name, call)
    \/ \E slot \in Slots, httpOk \in BOOLEAN : CompleteCall(slot, httpOk)

ConcurrentSpec == ConcurrentInit /\ [][ConcurrentNext]_vars

(***************************************************************************)
(* ArgoClient.request and RetryStrategy.execute.                           *)
(***************************************************************************)
\* No ArgoMCPServer is part of the specification at hand.
ServerOff ==
    /\ parserKind = "off" /\ entry = "off" /\ doc = Off /\ phase = "off"
    /\ tools = <<>> /\ toolOrigin = <<>> /\ serverTools = <<>>
    /\ initError = "none" /\ connected = FALSE /\ httpStatus = 0 /\ exitCode = -1
    /\ lastList = NoList /\ lastCall = NoCall /\ inflight = NoneInFlight

\* ConfigSchema.API_RETRY_ATTEMPTS: .min(0)
MinRetryAttempts == 0
\* The largest API_RETRY_ATTEMPTS of the model (the schema allows up to 10).
MaxRetryAttempts == 3

\* What the Argo server does with one attempt: it answers with a status, the
\* axios timeout passes, or the connection is refused.
Responses ==
    {[kind |-> "status", status |-> st] : st \in {200, 401, 404, 429, 500}}
        \cup {[kind |-> "timeout"], [kind |-> "refused"]}

\* What the wrapped operation throws for a response (argo-client.ts 100-105):
\* handleAPIError for a status from 400 on, else the error axios rejects with.
\* A message is the list of its words.
handleAPIError(status) ==
    IF status \in {401, 403}
    THEN [class |-> "AuthenticationError", message |-> <<"Invalid", "or", "insufficient">>]
    ELSE [class |-> "ArgoAPIError", statusCode |-> status, message |-> <<"API", "request", "failed">>]
ErrorOf(rsp) ==
    IF rsp.kind = "status" THEN handleAPIError(rsp.status)
    ELSE IF rsp.kind = "timeout"
    THEN [class |-> "AxiosError", code |-> "ECONNABORTED",
          message |-> <<"timeout", "of", "30000ms", "exceeded">>]
    ELSE [class |-> "AxiosError", code |-> "ECONNREFUSED",
          message |-> <<"connect", "ECONNREFUSED", "127.0.0.1:2746">>]
Succeeds(rsp) == rsp.kind = "status" /\ rsp.status < 400

retryableStatuses == {408, 429, 500, 502, 503, 504}
networkErrors == {"ECONNREFUSED", "ECONNRESET", "ETIMEDOUT", "ENOTFOUND", "ENETUNREACH", "EAI_AGAIN"}

\* shouldRetry with the attempts never running out.
shouldRetryUnbounded(error, attempt, maxAttempts) ==
    IF error.class = "TimeoutError" THEN TRUE
    ELSE IF error.class = "ArgoAPIError" THEN error.statusCode \in retryableStatuses
    ELSE \E w \in Range(error.message) : w \in networkErrors
shouldRetry(error, attempt, maxAttempts) ==
    IF attempt >= maxAttempts THEN FALSE
    ELSE IF error.class = "TimeoutError" THEN TRUE
    ELSE IF error.class = "ArgoAPIError" THEN error.statusCode \in retryableStatuses
    ELSE \E w \in Range(error.message) : w \in networkErrors

\* ArgoClient.transformError
transformError(error) ==
    IF error.class = "AxiosError"
    THEN (IF error.code = "ECONNABORTED"
          THEN [class |-> "TimeoutError", message |-> <<"Operation", "timed", "out">>]
          ELSE [class |-> "ArgoAPIError", statusCode |-> 0, message |-> error.message])
    ELSE error

MaxAttemptsReached == [class |-> "Error", message |-> <<"Max", "retry", "attempts", "reached">>]
NoError == [class |-> "none"]

\* request() has been called with the configured number of attempts.
RetryInit ==
    /\ ServerOff
    /\ \E n \in MinRetryAttempts..MaxRetryAttempts :
           retry = [pc |-> "start", maxAttempts |-> n, attempt |-> 0, responses |-> <<>>,
                    sleeps |-> 0, lastError |-> NoError, outcome |-> NoError]
    /\ shutdown = Off /\ web = Off

\* The loop head: for (attempt...; attempt <= maxAttempts; ...), from attempt.
LoopHead(r, attempt) ==
    IF attempt <= r.maxAttempts
    THEN [r EXCEPT !.pc = "calling", !.attempt = attempt]
    ELSE [r EXCEPT !.pc = "thrown", !.attempt = attempt,
                   !.outcome = transformError(IF r.lastError = NoError THEN MaxAttemptsReached
                                              ELSE r.lastError)]

\* execute() is entered.
Execute ==
    /\ retry.pc = "start"
    /\ retry' = LoopHead(retry, 1)
    /\ UNCHANGED <<serverVars, shutdown, web>>

\* One attempt: fn() is awaited and the server responds; the catch block.
AfterAttempt(r, rsp) ==
    IF Succeeds(rsp)
    THEN [r EXCEPT !.pc = "returned", !.responses = Append(r.responses, rsp)]
    ELSE IF ~shouldRetry(ErrorOf(rsp), r.attempt, r.maxAttempts)
    THEN [r EXCEPT !.pc = "thrown", !.responses = Append(r.responses, rsp),
                   !.lastError = ErrorOf(rsp), !.outcome = transformError(ErrorOf(rsp))]
    ELSE [r EXCEPT !.pc = "sleeping", !.responses = Append(r.responses, rsp),
                   !.lastError = ErrorOf(rsp)]
Attempt(rsp) ==
    /\ retry.pc = "calling"
    /\ retry' = AfterAttempt(retry, rsp)
    /\ UNCHANGED <<serverVars, shutdown, web>>

\* The sleep ends and the loop goes on.
Wake ==
    /\ retry.pc = "sleeping"
    /\ retry' = LoopHead([retry EXCEPT !.sleeps = retry.sleeps + 1], retry.attempt + 1)
    /\ UNCHANGED <<serverVars, shutdown, web>>

RetryNext ==
    \/ Execute
    \/ \E rsp \in Responses : Attempt(rsp)
    \/ Wake

RetrySpec == RetryInit /\ [][RetryNext]_vars

(***************************************************************************)
(* Graceful shutdown: utils/shutdown.ts with the process listeners of      *)
(* utils/logger.ts, which are registered first (at import).                *)
(***************************************************************************)
\* The largest number of registered shutdown handlers.
MaxHandlers == 2
\* The largest number of signals and rejections delivered to one process.
MaxEvents == 3

Signals == {"SIGTERM", "SIGINT", "SIGHUP"}
Registered(s) == 1..Len(s.handlers)
Settled(s) == \A h \in Registered(s) : s.handlers[h] \in {"resolved", "rejected"}

\* process.exit(code)
ProcessExit(s, code, cause) == [s EXCEPT !.pc = "exited", !.exit = code, !.cause = cause]

\* The guard of shutdown(): a shutdown is in progress.
NeverShuttingDown(s) == FALSE
AlreadyShuttingDown(s) == s.isShuttingDown

\* Promise.all over the wrapped handlers has resolved: clearTimeout, exit(0).
Completed(s) ==
    IF Settled(s) THEN ProcessExit([s EXCEPT !.timer = "cleared"], 0, "completed") ELSE s

\* shutdown(signal): the guard, the flag, the timer, and the map over the
\* handlers, which calls every handler before the first await gives way.
shutdownFrom(s, signal) ==
    IF AlreadyShuttingDown(s) THEN s
    ELSE Completed([s EXCEPT !.isShuttingDown = TRUE, !.signal = signal, !.timer = "armed",
                             !.handlers = [h \in Registered(s) |-> "pending"],
                             !.calls = [h \in Registered(s) |-> s.calls[h] + 1]])

\* A wrapped handler settles.  Its rejection is caught and logged, so the
\* wrapper resolves either way.
SettleUnwrapped(s, h, ok) ==
    IF ok THEN Completed([s EXCEPT !.handlers[h] = "resolved"])
    ELSE ProcessExit([s EXCEPT !.handlers[h] = "rejected", !.timer = "cleared"], 1, "failed")
SettleWrapped(s, h, ok) ==
    Completed([s EXCEPT !.handlers[h] = IF ok THEN "resolved" ELSE "rejected"])

\* logger.ts: the 'uncaughtException' listener logs and exits.
loggerUncaughtException(s) == ProcessExit(s, 1, "uncaughtException")
\* The listeners of 'uncaughtException' in the order of their registration;
\* a listener runs only while the process lives.
emitUncaughtException(s) ==
    IF loggerUncaughtException(s).pc = "exited" THEN loggerUncaughtException(s)
    ELSE shutdownFrom(loggerUncaughtException(s), "uncaughtException")

ShutdownInit ==
    /\ ServerOff
    /\ retry = Off /\ web = Off
    /\ \E n \in 0..MaxHandlers :
           shutdown = [pc |-> "running", isShuttingDown |-> FALSE, signal |-> "none",
                       handlers |-> [h \in 1..n |-> "idle"], calls |-> [h \in 1..n |-> 0],
                       timer |-> "unset", exit |-> -1, cause |-> "none", events |-> 0]

\* A termination signal is delivered.
Signal(sig) ==
    /\ shutdown.pc = "running" /\ shutdown.events < MaxEvents
    /\ shutdown' = shutdownFrom([shutdown EXCEPT !.events = shutdown.events + 1], sig)
    /\ UNCHANGED <<serverVars, retry, web>>

\* A promise is rejected with no handler: logger.ts logs, shutdown.ts shuts down.
UnhandledRejection ==
    /\ shutdown.pc = "running" /\ shutdown.events < MaxEvents
    /\ shutdown' = shutdownFrom([shutdown EXCEPT !.events = shutdown.events + 1],
                                "unhandledRejection")
    /\ UNCHANGED <<serverVars, retry, web>>

\* An exception reaches the event loop.
UncaughtException ==
    /\ shutdown.pc = "running"
    /\ shutdown' = emitUncaughtException(shutdown)
    /\ UNCHANGED <<serverVars, retry, web>>

\* The promise of a pending handler settles.
Settle(h, ok) ==
    /\ shutdown.pc = "running"
    /\ h \in Registered(shutdown) /\ shutdown.handlers[h] = "pending"
    /\ shutdown' = SettleWrapped(shutdown, h, ok)
    /\ UNCHANGED <<serverVars, retry, web>>

\* The shutdown timer fires.
Timeout ==
    /\ shutdown.pc = "running" /\ shutdown.timer = "armed"
    /\ shutdown' = ProcessExit([shutdown EXCEPT !.timer = "fired"], 1, "timeout")
    /\ UNCHANGED <<serverVars, retry, web>>

ShutdownNext ==
    \/ \E sig \in Signals : Signal(sig)
    \/ UnhandledRejection
    \/ UncaughtException
    \/ \E h \in 1..MaxHandlers, ok \in BOOLEAN : Settle(h, ok)
    \/ Timeout

ShutdownSpec == ShutdownInit /\ [][ShutdownNext]_vars
\* The event loop runs a timer that is due.
ShutdownFairSpec == ShutdownSpec /\ WF_vars(Timeout)

(***************************************************************************)
(* The HTTP entry point: index.ts, main().                                 *)
(***************************************************************************)
\* The largest number of sessions one process creates.
MaxSessions == 2

\* config.HTTP_AUTH_TOKEN; the empty sequence is the token that is unset.
Secret == <<"s3cret">>
Tokens == {<<>>, Secret}
BearerOf(token) == <<"Bearer", " ">> \o token
\* The Authorization headers of the requests; <<>> is the header left out.
Headers == {<<>>, BearerOf(Secret), BearerOf(<<"wrong">>), <<"bearer", " ">> \o Secret, Secret}
Methods == {"POST", "GET", "DELETE"}
\* The mcp-session-id headers; 0 is the header left out.
SessionIds == 0..MaxSessions
\* The bodies: none, an initialize request, another JSON-RPC message, and
\* text that is no JSON.
Bodies == {"none", "initialize", "other", "malformed"}
Requests == [method : Methods, session : SessionIds, authorization : Headers, body : Bodies]

NoRequest == [made |-> FALSE]
NoSession == [made |-> FALSE]
\* The response to req, and the part of the server that sent it.
Respond(w, req, status, by) ==
    [w EXCEPT !.last = [made |-> TRUE, req |-> req, status |-> status, by |-> by,
                        stale |-> req.session \in w.closed]]

\* transport.onclose
oncloseTransportOnly(w, id) ==
    IF w.transports[id].sessionId # 0
    THEN [w EXCEPT !.transports = [k \in DOMAIN w.transports \ {id} |-> w.transports[k]],
                   !.closed = w.closed \cup {id}]
    ELSE w
onclose(w, id) ==
    IF w.transports[id].sessionId # 0
    THEN [w EXCEPT !.transports = [k \in DOMAIN w.transports \ {id} |-> w.transports[k]],
                   !.servers = [k \in DOMAIN w.servers \ {id} |-> w.servers[k]],
                   !.closed = w.closed \cup {id}]
    ELSE w

\* transport.handleRequest for the transport of a session: it answers, and
\* a DELETE closes the transport.
handleRequest(w, req) ==
    IF req.method = "DELETE" THEN onclose(Respond(w, req, 200, "transport"), req.session)
    ELSE Respond(w, req, 200, "transport")

\* The POST route, up to its first await.
IsCreation(w, req) ==
    /\ req.method = "POST"
    /\ ~(req.session # 0 /\ req.session \in DOMAIN w.transports)
    /\ req.session = 0 /\ req.body = "initialize"
postRoute(w, req) ==
    IF req.session # 0 /\ req.session \in DOMAIN w.transports THEN handleRequest(w, req)
    ELSE IF req.session = 0 /\ req.body = "initialize"
    THEN Respond([w EXCEPT !.starting = w.starting + 1], req, 0, "post")
    ELSE Respond(w, req, 400, "post")

\* handleSessionRequest, the GET and DELETE routes.
handleSessionRequest(w, req) ==
    IF req.session = 0 \/ req.session \notin DOMAIN w.transports
    THEN Respond(w, req, 400, "session")
    ELSE handleRequest(w, req)

Route(w, req) ==
    IF req.method = "POST" THEN postRoute(w, req) ELSE handleSessionRequest(w, req)

\* The authenticate middleware: does it call next()?
authenticate(token, header) ==
    IF token # <<>> THEN ~(header = <<>> \/ header # BearerOf(token)) ELSE TRUE

\* The middleware chain: express.json(), authenticate, the route.
Serve(w, req) ==
    IF req.body = "malformed" THEN Respond(w, req, 400, "express.json")
    ELSE IF ~authenticate(w.token, req.authorization) THEN Respond(w, req, 401, "authenticate")
    ELSE Route(w, req)

WebInit ==
    /\ ServerOff
    /\ retry = Off /\ shutdown = Off
    /\ \E token \in Tokens :
           web = [pc |-> "serving", token |-> token, transports |-> <<>>, servers |-> <<>>,
                  issued |-> 0, closed |-> {}, starting |-> 0,
                  last |-> NoRequest, session |-> NoSession]

\* A request arrives on the MCP path.
Request(req) ==
    /\ web.pc = "serving"
    /\ IsCreation(web, req) /\ authenticate(web.token, req.authorization)
           => web.issued + web.starting < MaxSessions
    /\ web' = Serve(web, req)
    /\ UNCHANGED <<serverVars, retry, shutdown>>

\* The rest of a creating POST: server.initialize() and connect() settle,
\* then the new transport handles the initialize request; when it accepts
\* it, it draws the session id and calls onsessioninitialized.
AfterInitialize(w, initOk, accepted) ==
    IF ~initOk THEN [w EXCEPT !.starting = w.starting - 1,
                              !.session = [made |-> TRUE, status |-> 500, id |-> 0]]
    ELSE IF ~accepted THEN [w EXCEPT !.starting = w.starting - 1,
                                     !.session = [made |-> TRUE, status |-> 400, id |-> 0]]
    ELSE [w EXCEPT !.starting = w.starting - 1, !.issued = w.issued + 1,
                   !.transports = w.transports @@ ((w.issued + 1) :> [sessionId |-> w.issued + 1]),
                   !.servers = w.servers @@ ((w.issued + 1) :> "server"),
                   !.session = [made |-> TRUE, status |-> 200, id |-> w.issued + 1]]
FinishCreation(initOk, accepted) ==
    /\ web.pc = "serving" /\ web.starting > 0
    /\ web' = AfterInitialize(web, initOk, accepted)
    /\ UNCHANGED <<serverVars, retry, shutdown>>

\* The cleanup interval.
Sweep(w) ==
    [w EXCEPT !.transports = [k \in {i \in DOMAIN w.transports : w.transports[i].sessionId # 0}
                                  |-> w.transports[k]],
              !.servers = [k \in {i \in DOMAIN w.servers :
                                      i \notin DOMAIN w.transports \/ w.transports[i].sessionId # 0}
                               |-> w.servers[k]]]
Cleanup ==
    /\ web.pc = "serving"
    /\ web' = Sweep(web)
    /\ UNCHANGED <<serverVars, retry, shutdown>>

\* The registered shutdown handler runs and the process exits.
CloseAll(w) ==
    [w EXCEPT !.pc = "exited", !.transports = <<>>, !.servers = <<>>,
              !.closed = w.closed \cup DOMAIN w.transports]
ShutdownHttp ==
    /\ web.pc = "serving"
    /\ web' = CloseAll(web)
    /\ UNCHANGED <<serverVars, retry, shutdown>>

WebNext ==
    \/ \E req \in Requests : Request(req)
    \/ \E initOk \in BOOLEAN, accepted \in BOOLEAN : FinishCreation(initOk, accepted)
    \/ Cleanup
    \/ ShutdownHttp

WebSpec == WebInit /\ [][WebNext]_vars

(***************************************************************************)
(* Properties of compilation.                                              *)
(***************************************************************************)
\* The tools have been compiled and published.
Compiled == phase \in {"initialized", "serving"}

\* The store of shared definitions of a document.
SharedDefinitions(d) == IF Has(d, "components") THEN d.components.schemas ELSE d.definitions

\* The entries of the document that are operations to the parser of kind pk,
\* and the name each carries.
IsCandidate(pk, e) ==
    /\ isHttpMethod(e.method)
    /\ IF pk = "guarded" THEN isOperationG(e.operation) /\ e.operation.operationId # <<>>
       ELSE isOperationA(e.operation)
NameOf(pk, e) ==
    IF pk = "guarded" THEN e.operation.operationId
    ELSE OperationIdA(e.operation, e.method, e.path)
Candidates(pk, d) == {i \in DOMAIN Entries(d) : IsCandidate(pk, Entries(d)[i])}
OperationNames(pk, d) == {NameOf(pk, Entries(d)[i]) : i \in Candidates(pk, d)}

\* Compiling entry e alone gives a tool (its input schema builds without a throw).
CompilesOk(pk, d, e) ==
    IF pk = "guarded" THEN ~IsUndef(operationToToolG(d, e.path, e.method, e.operation))
    ELSE ~IsUndef(operationToToolA(d, isOpenAPI3(d), e.path, e.method,
                                   Put(e.operation, "operationId", NameOf(pk, e))))

\* The tools named n, and the candidate entries named n.
ToolsNamed(n) == {k \in DOMAIN tools : tools[k].name = n}
CandidatesNamed(pk, d, n) == {i \in Candidates(pk, d) : NameOf(pk, Entries(d)[i]) = n}
Least(S) == CHOOSE i \in S : \A j \in S : i <= j

\* A shared definition one of whose properties refers back to the definition itself.
SelfReferences(d) ==
    {<<n, k>> \in (DOMAIN SharedDefinitions(d)) \X {kNext, ka, kb, kx, ky} :
        /\ Has(SharedDefinitions(d)[n], "properties")
        /\ k \in DOMAIN SharedDefinitions(d)[n].properties
        /\ SharedDefinitions(d)[n].properties[k] = RefTo(isOpenAPI3(d), n)}

\* C1: in a document whose references all have a target, resolving a reference
\* to any shared definition ends without an error, also when the definitions
\* refer to themselves or to each other; the branch that re-enters the
\* definition being resolved is the placeholder {type: object} annotated with
\* the reference.
C1_CyclicReferencesResolve ==
    (Compiled /\ "A" \in DOMAIN SharedDefinitions(doc)) =>
        /\ \A n \in DOMAIN SharedDefinitions(doc) :
               resolveSchema(parserKind, doc, RefTo(isOpenAPI3(doc), n)).ok
        /\ \A nk \in SelfReferences(doc) :
               resolveSchema(parserKind, doc, RefTo(isOpenAPI3(doc), nk[1])).v.properties[nk[2]]
                   = CircularPlaceholder(RefTo(isOpenAPI3(doc), nk[1]).ref)

\* A schema holds no $ref, allOf, oneOf or anyOf key, at any depth.
RECURSIVE ReferenceFree(_)
ReferenceFree(s) ==
    /\ {"ref", "allOf", "oneOf", "anyOf"} \cap DOMAIN s = {}
    /\ Has(s, "properties") => \A k \in DOMAIN s.properties : ReferenceFree(s.properties[k])
    /\ Has(s, "items") => ReferenceFree(s.items)
    /\ Has(s, "additionalProperties") => ReferenceFree(s.additionalProperties)

\* C2: every property schema in the input schema of a compiled tool is free of
\* $ref, allOf, oneOf and anyOf at every depth.
C2_ToolSchemasReferenceFree ==
    \A k \in DOMAIN tools :
        \A p \in DOMAIN tools[k].inputSchema.properties :
            ReferenceFree(tools[k].inputSchema.properties[p])

\* C3 (as stated): a name that several operations carry has exactly one
\* descriptor, compiled from the first of them in document order.
C3_FirstDeclaredWins ==
    phase = "initialized" =>
        \A n \in OperationNames(parserKind, doc) :
            Cardinality(CandidatesNamed(parserKind, doc, n)) > 1 =>
                /\ Cardinality(ToolsNamed(n)) = 1
                /\ \A k \in ToolsNamed(n) :
                       toolOrigin[k] = Entries(doc)[Least(CandidatesNamed(parserKind, doc, n))].at

\* C3 (amended): no two descriptors share a name; the descriptor of a name is
\* compiled from the first operation of that name, in document order, whose
\* input schema builds without an error; and a name has no descriptor only
\* when no operation of that name builds.
C3_FirstCompiledWins ==
    phase = "initialized" =>
        /\ \A j, k \in DOMAIN tools : tools[j].name = tools[k].name => j = k
        /\ \A k \in DOMAIN tools :
               \E i \in CandidatesNamed(parserKind, doc, tools[k].name) :
                   /\ Entries(doc)[i].at = toolOrigin[k]
                   /\ CompilesOk(parserKind, doc, Entries(doc)[i])
                   /\ \A j \in CandidatesNamed(parserKind, doc, tools[k].name) :
                          j < i => ~CompilesOk(parserKind, doc, Entries(doc)[j])
        /\ \A i \in Candidates(parserKind, doc) :
               CompilesOk(parserKind, doc, Entries(doc)[i])
                   => ToolsNamed(NameOf(parserKind, Entries(doc)[i])) # {}

\* Two operations are named foo, the first is dropped and the descriptor foo is
\* compiled from the second.
C3_SecondCompiledAfterDrop ==
    /\ phase = "initialized"
    /\ Cardinality(CandidatesNamed(parserKind, doc, nFoo)) = 2
    /\ \E k \in DOMAIN tools : tools[k].name = nFoo /\ toolOrigin[k] = <<2, 1>>

\* The entry of the document at place at.
EntryAt(d, at) == CHOOSE e \in Range(Entries(d)) : e.at = at

\* C4: for every compiled descriptor, the lookup by its name returns the method
\* and the path template of the operation the descriptor was compiled from.
C4_LookupFindsCompiledOperation ==
    phase = "initialized" =>
        \A k \in DOMAIN tools :
            /\ ~IsUndef(getOperationInfo(parserKind, doc, tools[k].name))
            /\ getOperationInfo(parserKind, doc, tools[k].name).method
                   = EntryAt(doc, toolOrigin[k]).method
            /\ getOperationInfo(parserKind, doc, tools[k].name).path
                   = EntryAt(doc, toolOrigin[k]).path


(***************************************************************************)
(* Properties of dispatch.                                                 *)
(***************************************************************************)
\* The call being answered went to handleOpenAPITool.
OpenAPICall == lastCall.made /\ lastCall.handler = "openapi"
\* ... and handed a request to the HTTP client.
Issued == OpenAPICall /\ lastCall.sent # <<>>

\* The template with every {placeholder} that has a same-named argument
\* replaced by the argument's value, text for text, from position i on.
RECURSIVE LiteralSubstitution(_, _, _)
LiteralSubstitution(path, i, args) ==
    IF i > Len(path) THEN <<>>
    ELSE IF path[i] = "{" /\ NextClose(path, i) > i + 1
    THEN (IF Has(args, SubSeq(path, i + 1, NextClose(path, i) - 1))
          THEN args[SubSeq(path, i + 1, NextClose(path, i) - 1)]
          ELSE SubSeq(path, i, NextClose(path, i)))
         \o LiteralSubstitution(path, NextClose(path, i) + 1, args)
    ELSE <<path[i]>> \o LiteralSubstitution(path, i + 1, args)

\* The names of the placeholders of a template.
PlaceholderNames(path) == {ParamNameOf(m) : m \in Range(pathParamMatches(path))}

\* The arguments left for the query: not substituted, not body, not reserved.
RemainingArguments(path, args) ==
    [k \in {x \in DOMAIN args \ PlaceholderNames(path) : x # kBody /\ x[1] # "_"} |-> args[k]]

\* The query parameters of a request, none when it carries none.
ParamsOf(request) == IF Has(request, "params") THEN request.params ELSE EmptyObj

\* C5: the path of the request issued is the template with every placeholder
\* that has an argument replaced by the argument's value, its query parameters
\* are exactly the remaining arguments, and when every placeholder has an
\* argument no placeholder is left in the path.
C5_PathAndQueryFromArguments ==
    Issued =>
        /\ lastCall.sent[1].url
               = LiteralSubstitution(getOperationInfo(parserKind, doc, lastCall.name).path, 1,
                                     lastCall.args.map)
        /\ ParamsOf(lastCall.sent[1])
               = RemainingArguments(getOperationInfo(parserKind, doc, lastCall.name).path,
                                    lastCall.args.map)
        /\ PlaceholderNames(getOperationInfo(parserKind, doc, lastCall.name).path)
               \subseteq DOMAIN lastCall.args.map
           => pathParamMatches(lastCall.sent[1].url) = <<>>

\* The placeholders of the template of operation name that args has no key for.
MissingPlaceholders(pk, d, name, args) ==
    IF IsUndef(getOperationInfo(pk, d, name)) THEN {}
    ELSE {m \in Range(pathParamMatches(getOperationInfo(pk, d, name).path)) :
             ~Has(args, ParamNameOf(m))}

\* C6: a call of an operation of the document with an argument map that has no
\* key for a placeholder of the template issues a request, and the text of
\* that placeholder is in its path.
C6_MissingArgumentLeavesPlaceholder ==
    (OpenAPICall /\ lastCall.args.given) =>
        \A m \in MissingPlaceholders(parserKind, doc, lastCall.name, lastCall.args.map) :
            /\ lastCall.sent # <<>>
            /\ IndexOf(lastCall.sent[1].url, m) # 0

\* C7: when the argument map holds the key body, the request issued carries its
\* value as the payload, whatever the method.
C7_BodyIsSentAsPayload ==
    (Issued /\ Has(lastCall.args.map, kBody)) =>
        /\ Has(lastCall.sent[1], "data")
        /\ lastCall.sent[1].data = lastCall.args.map[kBody]

\* C8: a call of a name that is neither a custom tool nor the name of an
\* operation of the document fails with Unknown operation and issues no request.
C8_UnknownNameFails ==
    (/\ lastCall.made
     /\ lastCall.name \notin Range(CustomToolNames)
     /\ lastCall.name \notin OperationNames(parserKind, doc)) =>
        /\ lastCall.error = "Unknown operation"
        /\ lastCall.sent = <<>>

(***************************************************************************)
(* Properties of initialization.                                           *)
(***************************************************************************)
\* C9: a document of a supported version that has at least one path never
\* compiles successfully to an empty tool list.
C9_CompilationYieldsTools ==
    (/\ Compiled
     /\ isOpenAPI3(doc) \/ isSwagger2(doc)
     /\ Has(doc, "paths") /\ Len(doc.paths) >= 1) =>
        tools # <<>>

\* The document has no version marker openapi 3.* or swagger 2.0.
Undetectable(d) ==
    /\ ~(Has(d, "openapi") /\ Len(d.openapi) >= 2 /\ SubSeq(d.openapi, 1, 2) = <<"3", ".">>)
    /\ ~(Has(d, "swagger") /\ d.swagger = <<"2", ".", "0">>)
\* The paths mapping of the document is missing or empty.
PathsMissing(d) == "paths" \notin DOMAIN d \/ Len(d.paths) = 0

\* C10: once initialization has run on a document without a supported version
\* marker, or without paths, it has ended in a schema-parse error: the tool
\* lists of the parser and of the server are empty, the server is never
\* connected and answers no request; the HTTP request is answered 500 and the
\* stdio process exits with code 1.
C10_BadDocumentPublishesNothing ==
    (phase # "constructed" /\ (Undetectable(doc) \/ PathsMissing(doc))) =>
        /\ initError = "SchemaParseError"
        /\ phase \in {"initFailed", "rejected", "exited"}
        /\ tools = <<>> /\ serverTools = <<>>
        /\ ~connected
        /\ lastList = NoList /\ lastCall = NoCall
        /\ phase = "rejected" => httpStatus = 500
        /\ phase = "exited" => exitCode = 1

\* Initialization has failed on a document of a supported version whose paths
\* mapping is empty, and the HTTP request was answered.
C10_EmptyPathsRejected ==
    /\ phase = "rejected"
    /\ ~Undetectable(doc)
    /\ Has(doc, "paths") /\ doc.paths = <<>>

(***************************************************************************)
(* Properties of the failure policy and of resolution.                     *)
(***************************************************************************)
\* The sequence without its element k.
Without(seq, k) == SubSeq(seq, 1, k - 1) \o SubSeq(seq, k + 1, Len(seq))

\* The document without the entry at place at (its path item keeps its other keys).
RemoveEntry(d, at) ==
    [d EXCEPT !.paths[at[1]].item = Without(d.paths[at[1]].item, at[2])]

\* The tool list the parser of kind pk compiles from document d.
CompiledFrom(pk, d) ==
    IF pk = "guarded" THEN generateToolsG(d).tools ELSE generateToolsA(d, isOpenAPI3(d)).tools

\* The tool the parser compiles from entry e alone.
ToolFrom(pk, d, e) ==
    IF pk = "guarded" THEN operationToToolG(d, e.path, e.method, e.operation)
    ELSE operationToToolA(d, isOpenAPI3(d), e.path, e.method,
                          Put(e.operation, "operationId", NameOf(pk, e)))

\* The operations of the document whose input schema throws.
Throwing(pk, d) == {i \in Candidates(pk, d) : ~CompilesOk(pk, d, Entries(d)[i])}

\* C11: an operation whose input schema throws is dropped alone: the tool list
\* is the one compiled from the document without that operation, and every
\* descriptor in it is the one its operation compiles to by itself.
C11_OnlyThrowingOperationDropped ==
    phase = "initialized" =>
        /\ \A i \in Throwing(parserKind, doc) :
               CompiledFrom(parserKind, RemoveEntry(doc, Entries(doc)[i].at)) = tools
        /\ \A k \in DOMAIN tools :
               tools[k] = ToolFrom(parserKind, doc, EntryAt(doc, toolOrigin[k]))

\* An operation of the document throws and another one is compiled.
C11_DroppedBesideCompiled ==
    /\ phase = "initialized"
    /\ Throwing(parserKind, doc) # {}
    /\ tools # <<>>

\* The names a reference of the model may point to.
DefinitionNames == {"A", "B"}

\* C12: a reference whose target is in the store resolves to that target; a
\* reference with an absent segment fails and gives no schema value.
C12_AbsentTargetFails ==
    Compiled =>
        \A n \in DefinitionNames :
            IF n \in DOMAIN SharedDefinitions(doc)
            THEN resolveRef(parserKind, doc, RefTo(isOpenAPI3(doc), n).ref)
                     = Ok(SharedDefinitions(doc)[n])
            ELSE ~resolveRef(parserKind, doc, RefTo(isOpenAPI3(doc), n).ref).ok


\* The shared definitions of the document refer to nothing.
Acyclic(d) == \A n \in DOMAIN SharedDefinitions(d) : ReferenceFree(SharedDefinitions(d)[n])

\* A schema holds the circular-reference placeholder, at some depth.
RECURSIVE HasPlaceholder(_)
HasPlaceholder(s) ==
    \/ \E n \in DefinitionNames, v3 \in BOOLEAN : s = CircularPlaceholder(RefTo(v3, n).ref)
    \/ Has(s, "properties") /\ \E k \in DOMAIN s.properties : HasPlaceholder(s.properties[k])
    \/ Has(s, "items") /\ HasPlaceholder(s.items)

\* The sets of references that can be in flight when a resolution starts.
InFlightSets(d) == SUBSET {RefTo(isOpenAPI3(d), n).ref : n \in DefinitionNames}

\* C13: the cycle-guarded resolveSchema leaves the in-flight set as it found
\* it, whatever the schema and the set on entry; so in a document whose
\* shared definitions are not cyclic, no property schema of a compiled tool
\* holds the circular-reference placeholder, also where one reference occurs
\* in two sibling branches.
C13_InFlightSetRestored ==
    (phase = "initialized" /\ parserKind = "guarded") =>
        /\ \A f \in Fragments : \A entered \in InFlightSets(doc) :
               resolveSchemaVisited(doc, FragmentOf(f, isOpenAPI3(doc)), entered, 1).visited
                   = entered
        /\ Acyclic(doc) =>
               \A k \in DOMAIN tools : \A p \in DOMAIN tools[k].inputSchema.properties :
                   ~HasPlaceholder(tools[k].inputSchema.properties[p])

\* A tool of the guarded parser has a property whose two sibling properties
\* refer to the same definition, and both hold that definition in full.
C13_SiblingsResolvedInFull ==
    /\ Compiled /\ parserKind = "guarded" /\ Acyclic(doc)
    /\ "A" \in DOMAIN SharedDefinitions(doc)
    /\ \E k \in DOMAIN tools : \E p \in DOMAIN tools[k].inputSchema.properties :
           /\ Has(tools[k].inputSchema.properties[p], "properties")
           /\ {kp, kq} \subseteq DOMAIN tools[k].inputSchema.properties[p].properties
           /\ tools[k].inputSchema.properties[p].properties[kp] = SharedDefinitions(doc)["A"]
           /\ tools[k].inputSchema.properties[p].properties[kq] = SharedDefinitions(doc)["A"]

\* The properties and the required list of a schema, empty when it has none.
PropertiesOf(s) == IF Has(s, "properties") THEN s.properties ELSE EmptyObj
RequiredOf(s) == IF Has(s, "required") THEN s.required ELSE <<>>

\* The allOf schemas of the universe, and the resolutions of the branches of one.
AllOfFragments(d) ==
    {FragmentOf(f, isOpenAPI3(d)) : f \in {g \in Fragments : Has(FragmentOf(g, isOpenAPI3(d)), "allOf")}}
Branches(pk, d, s) == [i \in DOMAIN s.allOf |-> resolveSchema(pk, d, s.allOf[i])]

\* The branch lists joined end to end, and the first place of x in a list.
RECURSIVE JoinRequired(_)
JoinRequired(bs) ==
    IF bs = <<>> THEN <<>> ELSE RequiredOf(Head(bs).v) \o JoinRequired(Tail(bs))
FirstAt(xs, x) == Least({i \in DOMAIN xs : xs[i] = x})

\* merged is the merge of the resolved branches bs: an object schema whose
\* properties are the union of theirs, the last branch holding a key giving
\* its value, and whose required list holds every required name once, in the
\* order of first occurrence.
IsMergeOf(merged, bs) ==
    /\ merged.type = "object"
    /\ DOMAIN merged.properties = UNION {DOMAIN PropertiesOf(bs[i].v) : i \in DOMAIN bs}
    /\ \A k \in DOMAIN merged.properties :
           \E i \in DOMAIN bs :
               /\ k \in DOMAIN PropertiesOf(bs[i].v)
               /\ merged.properties[k] = bs[i].v.properties[k]
               /\ \A j \in DOMAIN bs : j > i => k \notin DOMAIN PropertiesOf(bs[j].v)
    /\ Range(RequiredOf(merged)) = Range(JoinRequired(bs))
    /\ \A i, j \in DOMAIN RequiredOf(merged) :
           i < j => FirstAt(JoinRequired(bs), RequiredOf(merged)[i])
                        < FirstAt(JoinRequired(bs), RequiredOf(merged)[j])

\* C14: where every branch of an allOf resolves, the allOf resolves to the
\* merge of the resolved branches: properties unioned key by key with the
\* later branch overwriting, required lists joined without duplicates.
C14_AllOfMergesBranches ==
    phase = "initialized" =>
        \A s \in AllOfFragments(doc) :
            (\A i \in DOMAIN s.allOf : Branches(parserKind, doc, s)[i].ok) =>
                /\ resolveSchema(parserKind, doc, s).ok
                /\ IsMergeOf(resolveSchema(parserKind, doc, s).v, Branches(parserKind, doc, s))

\* A compiled tool has a property merged from branches that share the key x
\* and both require it: x holds the later branch's schema and is required once.
C14_MergedWithSharedKey ==
    /\ Compiled /\ Acyclic(doc) /\ "A" \in DOMAIN SharedDefinitions(doc)
    /\ \E k \in DOMAIN tools : \E p \in DOMAIN tools[k].inputSchema.properties :
           /\ PropertiesOf(tools[k].inputSchema.properties[p])
                  = (kx :> [type |-> "integer"]) @@ (ky :> [type |-> "integer"])
           /\ RequiredOf(tools[k].inputSchema.properties[p]) = <<kx>>

\* A schema with the one key oneOf or anyOf, listing references to n1 and n2.
OneOf(key, d, n1, n2) ==
    key :> <<RefTo(isOpenAPI3(d), n1), RefTo(isOpenAPI3(d), n2)>>

\* C15: a schema with oneOf or anyOf resolves to what its first branch alone
\* resolves to, a throw included, whatever the second branch is (absent from
\* the definitions, or cyclic).
C15_FirstBranchOnly ==
    phase = "initialized" =>
        \A key \in {"oneOf", "anyOf"} : \A n1, n2 \in DefinitionNames :
            resolveSchema(parserKind, doc, OneOf(key, doc, n1, n2))
                = resolveSchema(parserKind, doc, RefTo(isOpenAPI3(doc), n1))

\* A compiled tool has a property that is the first alternative, B, of a oneOf
\* whose second alternative, A, is not defined.
C15_FirstAlternativeCompiled ==
    /\ Compiled /\ "A" \notin DOMAIN SharedDefinitions(doc)
    /\ \E k \in DOMAIN tools : \E p \in DOMAIN tools[k].inputSchema.properties :
           PropertiesOf(tools[k].inputSchema.properties[p]) = PlainB.properties

(***************************************************************************)
(* Properties of naming and of the input schema.                           *)
(***************************************************************************)
\* An entry of the document is an operation: an HTTP verb whose value is an
\* object with an identifier, a summary, a description, parameters or responses.
Recognized(e) ==
    /\ isHttpMethod(e.method)
    /\ IsObject(e.operation)
    /\ \E key \in {"operationId", "summary", "description", "parameters", "responses"} :
           Has(e.operation, key)

\* The path segments that are not {parameter} segments, each with its first
\* letter in upper case, joined.
RECURSIVE CamelSegments(_)
CamelSegments(segs) ==
    IF segs = <<>> THEN <<>>
    ELSE IF Head(segs) = <<>> \/ Head(Head(segs)) = "{" THEN CamelSegments(Tail(segs))
    ELSE toUpperCase(<<Head(Head(segs))>>) \o Tail(Head(segs)) \o CamelSegments(Tail(segs))

\* The name an operation is to get: its declared identifier, or the
\* lower-cased method followed by the camel-cased path.
ExpectedName(e) ==
    IF Has(e.operation, "operationId") /\ e.operation.operationId # <<>>
    THEN e.operation.operationId
    ELSE toLowerCase(e.method) \o CamelSegments(split(e.path, "/"))

\* C16: every operation of the document whose input schema builds has a tool
\* of the name it is to get (declared, or synthesized from method and path),
\* and every tool carries the name of the operation it was compiled from; an
\* operation without a declared identifier is not left out.
C16_EveryOperationNamed ==
    phase = "initialized" =>
        /\ \A i \in DOMAIN Entries(doc) :
               (/\ Recognized(Entries(doc)[i])
                /\ parserKind = "adapting" => CompilesOk(parserKind, doc, Entries(doc)[i]))
                   => ToolsNamed(ExpectedName(Entries(doc)[i])) # {}
        /\ \A k \in DOMAIN tools :
               tools[k].name = ExpectedName(EntryAt(doc, toolOrigin[k]))

\* The parameters of an operation that are not located in the body, and the
\* declaration of its request body: requestBody with a JSON schema in
\* OpenAPI 3, a parameter located in the body in Swagger 2.0.
NonBodyParams(op) == {q \in Range(Parameters(op)) : q["in"] # "body"}
BodyDeclared(d, op) ==
    IF isOpenAPI3(d)
    THEN Has(op, "requestBody") /\ Has(op.requestBody.content[JsonContent], "schema")
    ELSE \E q \in Range(Parameters(op)) : q["in"] = "body"
BodyRequired(d, op) ==
    IF isOpenAPI3(d) THEN Has(op.requestBody, "required") /\ op.requestBody.required = TRUE
    ELSE \E q \in Range(Parameters(op)) :
             q["in"] = "body" /\ Has(q, "required") /\ q.required = TRUE

\* input is the input schema the claim describes for operation op of document d.
IsInputSchemaOf(input, d, op) ==
    /\ input.type = "object"
    /\ input.additionalProperties = FALSE
    /\ DOMAIN input.properties
           = {q.name : q \in NonBodyParams(op)}
                 \cup (IF BodyDeclared(d, op) THEN {kBody} ELSE {})
    /\ Range(RequiredOf(input))
           = {q.name : q \in {x \in NonBodyParams(op) : Has(x, "required") /\ x.required = TRUE}}
                 \cup (IF BodyDeclared(d, op) /\ BodyRequired(d, op) THEN {kBody} ELSE {})
    /\ Range(RequiredOf(input)) \subseteq DOMAIN input.properties

\* C17: the input schema of every compiled tool is an object schema closed to
\* additional properties, with one property for each non-body parameter of
\* its operation and the property body exactly when a request body is
\* declared; required names exactly the required parameters, and body exactly
\* when the body is required, each of them a property.
C17_InputSchemaOfParameters ==
    phase = "initialized" =>
        \A k \in DOMAIN tools :
            IsInputSchemaOf(tools[k].inputSchema, doc, EntryAt(doc, toolOrigin[k]).operation)

\* A compiled tool of an operation with a required path parameter, an optional
\* query parameter and a body: three properties, of which one is required.
C17_ParametersAndBodyCompiled ==
    /\ phase = "initialized"
    /\ \E k \in DOMAIN tools :
           /\ DOMAIN tools[k].inputSchema.properties = {kId, kNum, kBody}
           /\ RequiredOf(tools[k].inputSchema) = <<kId>>

\* The fields a Swagger 2.0 parameter may declare in place of a schema.
DirectFields == {"type", "format", "enum", "items"}

\* C18: in a Swagger 2.0 document, the property compiled for a non-body
\* parameter that declares its type, format, enum or items directly carries
\* each of the fields the parameter declares, with the value it declares.
C18_LegacyParameterEquivalent ==
    (phase = "initialized" /\ isSwagger2(doc)) =>
        \A k \in DOMAIN tools :
            \A q \in NonBodyParams(EntryAt(doc, toolOrigin[k]).operation) :
                ~Has(q, "schema") =>
                    \A f \in DirectFields \cap DOMAIN q :
                        /\ Has(tools[k].inputSchema.properties[q.name], f)
                        /\ tools[k].inputSchema.properties[q.name][f] = q[f]

(***************************************************************************)
(* Properties of concurrent dispatch and of start-up.                      *)
(***************************************************************************)
\* The request the call of name with arguments call issues when no other
\* call is in flight.
IssuedAlone(name, call) == CallResult(parserKind, doc, name, call, TRUE).sent

\* C19: whatever calls are in flight together, each has issued the request it
\* issues when run alone; and no step of a call changes the document, the
\* compiled tools, the places the lookup walks or the tools the server lists.
C19_DispatchIndependent ==
    /\ [](\A s \in Slots :
              inflight[s].made => inflight[s].sent = IssuedAlone(inflight[s].name, inflight[s].args))
    /\ [][(inflight' # inflight) =>
              UNCHANGED <<parserKind, doc, tools, toolOrigin, serverTools>>]_vars

\* Two calls of different arguments are in flight at once, each with a request
\* issued, and the requests differ.
C19_TwoRequestsInFlight ==
    /\ \A s \in Slots : inflight[s].made /\ inflight[s].sent # <<>>
    /\ \E s, t \in Slots : inflight[s].sent # inflight[t].sent

\* C20: on either entry path the server is connected only once initialize()
\* has returned without an error, with the tools of the whole document
\* compiled; the tools do not change while it is connected; and what
\* tools/list returns names every compiled tool, followed by the custom tools.
C20_ServedOnlyAfterCompilation ==
    /\ [](connected => phase = "serving" /\ initError = "none")
    /\ [](phase = "initialized" =>
              /\ initialize(parserKind, doc).ok
              /\ tools = initialize(parserKind, doc).v.tools
              /\ serverTools = tools \o getCustomTools)
    /\ [][(~connected /\ connected') =>
              phase = "initialized" /\ UNCHANGED <<tools, serverTools>>]_vars
    /\ [][connected => UNCHANGED <<doc, tools, serverTools>>]_vars
    /\ [](lastList.listed =>
              /\ connected
              /\ Len(lastList.names) = Len(tools) + Len(getCustomTools)
              /\ \A k \in DOMAIN tools : lastList.names[k] = tools[k].name)

\* The server started over stdio is answering tools/list with compiled tools.
C20_CompiledToolsListed ==
    /\ entry = "stdio" /\ connected
    /\ lastList.listed /\ tools # <<>>

(***************************************************************************)
(* Properties of the tools/call handler.                                   *)
(***************************************************************************)
\* C21: a call of a compiled tool never ends in Unsupported HTTP method: every
\* method the compiler makes a tool for is one the dispatcher's switch handles.
C21_CompiledToolsDispatchable ==
    (lastCall.made /\ ToolsNamed(lastCall.name) # {}) =>
        lastCall.error # "Unsupported HTTP method"

\* The failures a call can end in.
CallErrors == {"Unknown operation", "Unsupported HTTP method", "TypeError", "ArgoAPIError"}

Ended == retry.pc \in {"returned", "thrown"}
\* Statuses no configuration of the strategy retries.
TerminalStatuses == {401, 404}

\* C23: execute calls the operation at most maxAttempts times.  It goes on
\* only after a failure and never after a terminal one; it sleeps only
\* between two calls; when it returns, the last call succeeded; when it
\* throws after a call, the error is that of the last call.
C23_AtMostMaxAttempts ==
    retry.pc # "off" =>
        /\ Len(retry.responses) <= retry.maxAttempts
        /\ \A i \in 1..(Len(retry.responses) - 1) :
               /\ ~Succeeds(retry.responses[i])
               /\ ~(retry.responses[i].kind = "status"
                    /\ retry.responses[i].status \in TerminalStatuses)
        /\ Ended => retry.sleeps = (IF retry.responses = <<>> THEN 0 ELSE Len(retry.responses) - 1)
        /\ retry.pc = "returned" => Succeeds(retry.responses[Len(retry.responses)])
        /\ (retry.pc = "thrown" /\ retry.responses # <<>>) =>
               /\ ~Succeeds(retry.responses[Len(retry.responses)])
               /\ retry.lastError = ErrorOf(retry.responses[Len(retry.responses)])

\* execute threw after as many failed calls as it may make, the last error
\* being one it would retry.
C23_GaveUpAfterLastAttempt ==
    /\ retry.pc = "thrown" /\ retry.maxAttempts >= 2
    /\ Len(retry.responses) = retry.maxAttempts
    /\ retry.responses[Len(retry.responses)] = [kind |-> "status", status |-> 500]

\* C24: a request has not ended while the last attempt timed out and attempts
\* remain: an attempt that times out before the last one is followed by another.
C24_TimeoutRetried ==
    (Ended /\ retry.responses # <<>>) =>
        ~(/\ retry.responses[Len(retry.responses)].kind = "timeout"
          /\ Len(retry.responses) < retry.maxAttempts)

\* C25: a request that has ended has made at least one attempt, whatever
\* number of attempts is configured.
C25_AtLeastOneAttempt ==
    Ended => Len(retry.responses) >= 1

(***************************************************************************)
(* Properties of the graceful shutdown.                                    *)
(***************************************************************************)
\* C26: whatever signals and error events arrive, before or during a
\* shutdown, each registered shutdown handler is invoked at most once.
C26_HandlersInvokedAtMostOnce ==
    shutdown.pc # "off" => \A h \in Registered(shutdown) : shutdown.calls[h] <= 1

\* A further signal or rejection arrived while a shutdown was in progress.
C26_SignalDuringShutdown ==
    /\ shutdown.pc = "running" /\ shutdown.isShuttingDown /\ shutdown.events >= 2
    /\ Len(shutdown.handlers) >= 1
    /\ \A h \in Registered(shutdown) : shutdown.calls[h] = 1

\* The state of a shutdown in progress or ended, as C27 has it.
ShutdownSound ==
    shutdown.pc # "off" =>
        /\ shutdown.isShuttingDown =>
               \A h \in Registered(shutdown) : shutdown.handlers[h] # "idle"
        /\ (shutdown.isShuttingDown /\ Settled(shutdown)) =>
               (shutdown.pc = "exited" /\ shutdown.exit = 0)
        /\ shutdown.timer = "fired" => (shutdown.pc = "exited" /\ shutdown.exit = 1)
        /\ (shutdown.pc = "exited" /\ shutdown.cause # "uncaughtException") =>
               \/ shutdown.exit = 0 /\ Settled(shutdown) /\ shutdown.timer = "cleared"
               \/ shutdown.exit = 1 /\ ~Settled(shutdown) /\ shutdown.timer = "fired"

\* C27: once a shutdown begins, every registered handler is started, also
\* when another one fails; the process exits with 0 once all handlers have
\* settled, resolved or rejected, and with 1 if the timer fires first; and
\* it does exit.
C27_ShutdownCompletes ==
    /\ []ShutdownSound
    /\ (shutdown.pc # "off" /\ shutdown.isShuttingDown) ~> (shutdown.pc = "exited")

\* The process exited with 0 although a handler had failed.
C27_ExitedAfterFailedHandler ==
    /\ shutdown.pc = "exited" /\ shutdown.exit = 0
    /\ Len(shutdown.handlers) = 2
    /\ shutdown.handlers[1] = "rejected" /\ shutdown.handlers[2] = "resolved"

\* C28: when the process exits on an uncaught exception, every registered
\* shutdown handler has been run.
C28_HandlersRunOnUncaughtException ==
    (shutdown.pc = "exited" /\ shutdown.cause = "uncaughtException") =>
        \A h \in Registered(shutdown) : shutdown.calls[h] >= 1

(***************************************************************************)
(* Properties of the HTTP entry point.                                     *)
(***************************************************************************)
\* The last request came without the bearer token that is configured.
Unauthorized ==
    /\ web.pc # "off" /\ web.last.made
    /\ web.token # <<>>
    /\ web.last.req.authorization # BearerOf(web.token)
\* A refused request has not gone past the middleware.
Refused == web.last.by \in {"express.json", "authenticate"}

\* C29: with HTTP_AUTH_TOKEN configured, a request whose Authorization header
\* is not 'Bearer <token>' is answered with 401 and reaches neither the
\* routes (no session, no server) nor a transport.
C29_UnauthorizedAnswered401 ==
    Unauthorized => (web.last.status = 401 /\ Refused)

\* What does hold of such a request: it never gets past the middleware.
UnauthorizedRefused ==
    Unauthorized => (web.last.status \in {400, 401} /\ Refused)

\* C30: transports and servers have the same keys; every key was issued by
\* an accepted initialize request; an id whose transport has closed, or any
\* id after shutdown, is in neither table; and a request that carries a
\* closed id and passes the middleware is answered 400.
C30_SessionTablesAgree ==
    web.pc # "off" =>
        /\ DOMAIN web.transports = DOMAIN web.servers
        /\ DOMAIN web.transports \subseteq 1..web.issued
        /\ web.session.made /\ web.session.status # 200 => web.session.id = 0
        /\ web.closed \cap DOMAIN web.transports = {}
        /\ web.closed \cap DOMAIN web.servers = {}
        /\ web.pc = "exited" => (DOMAIN web.transports = {} /\ DOMAIN web.servers = {})
        /\ (web.last.made /\ web.last.stale) =>
               /\ web.last.by # "transport"
               /\ ~Refused => web.last.status = 400

\* A request carried the id of a session that a DELETE had closed, while
\* another session was open.
C30_RequestAfterClose ==
    /\ web.pc = "serving" /\ web.last.made /\ web.last.stale /\ ~Refused
    /\ web.last.req.session = 1 /\ DOMAIN web.transports = {2}
=============================================================================
